---------------------------- MODULE Spec2Model ----------------------------
(***************************************************************************)
(* A model of the quizdash scraper: incremental game discovery             *)
(* (scrapeGames / processNewGames), the find-or-create of series and       *)
(* teams, the team slug generator and the CSV store with its in-memory     *)
(* team index.                                                             *)
(*                                                                         *)
(* Text is modelled as a sequence of characters, so that                       *)
(* normalizeText, toLowerCase and generateSlug are computed, not assumed.  *)
(***************************************************************************)
EXTENDS Integers, Sequences, FiniteSets, TLC

(***************************************************************************)
(* Bounds of the model.                                                    *)
(***************************************************************************)
\* games the source publishes over a behaviour (ids 1..MaxId)
MaxId == 3
\* rows the source serves per listing page
PageSize == 2
\* discovery passes (processNewGames iterations) in a behaviour
MaxRuns == 2

\* result fetches (processPendingResults iterations) in a behaviour
MaxFetches == 2
\* rows of a results table
MaxRows == 2
\* result fetches and rows of a table in the longer runs of one-row tables
TeamFetches == 3
TeamRows == 1

\* the absent value: undefined / null / the empty CSV cell
None == 0

Cities == {1, 2}

\* city.params?.scrape?.strategy of a city whose configuration sets no tag
Undefined == "<undefined>"

Max(a, b) == IF a >= b THEN a ELSE b
Min(a, b) == IF a <= b THEN a ELSE b

RECURSIVE Reverse(_)
Reverse(s) == IF s = <<>> THEN <<>> ELSE Append(Reverse(Tail(s)), Head(s))

(***************************************************************************)
(* Text.                                                                   *)
(***************************************************************************)
IsSpace(ch) == ch = " "

\* the capital letters of the model's texts and their small letters ("CY-KA"
\* stands for the one character U+041A, "cy-ka" for U+043A, and so on)
Capitals ==
  [ch \in {"A", "B", "T", "P", "CY-KA", "CY-ER", "CY-I", "CY-EM", "CY-GHE"} |->
     CASE ch = "A" -> "a" [] ch = "B" -> "b" [] ch = "T" -> "t" [] ch = "P" -> "p"
       [] ch = "CY-KA" -> "cy-ka" [] ch = "CY-ER" -> "cy-er" [] ch = "CY-I" -> "cy-i"
       [] ch = "CY-EM" -> "cy-em" [] ch = "CY-GHE" -> "cy-ghe"]

\* String.prototype.toLowerCase, one character
LowerChar(ch) == IF ch \in DOMAIN Capitals THEN Capitals[ch] ELSE ch

toLowerCase(s) == [i \in 1..Len(s) |-> LowerChar(s[i])]

\* the character replacements of normalizeText: the dash variants become "-"
\* ("ndash" stands for the one character U+2013)
ReplaceChar(ch) == IF ch = "ndash" THEN "-" ELSE ch

\* .replace(/\s+/g, ' '): every run of whitespace becomes one space
RECURSIVE CollapseSpaces(_)
CollapseSpaces(s) ==
  IF Len(s) < 2 THEN s
  ELSE IF IsSpace(s[1]) /\ IsSpace(s[2]) THEN CollapseSpaces(Tail(s))
  ELSE <<s[1]>> \o CollapseSpaces(Tail(s))

RECURSIVE TrimLeft(_)
TrimLeft(s) == IF s # <<>> /\ IsSpace(Head(s)) THEN TrimLeft(Tail(s)) ELSE s

\* String.prototype.trim
Trim(s) == Reverse(TrimLeft(Reverse(TrimLeft(s))))

normalizeText(s) == Trim(CollapseSpaces([i \in 1..Len(s) |-> ReplaceChar(s[i])]))

\* the dedup key of a name: normalizeText(name).toLowerCase()
NormKey(s) == toLowerCase(normalizeText(s))

(***************************************************************************)
(* The source: per city a listing of rows, most recent first.              *)
(***************************************************************************)
\* titles as the source types them; the first two differ only in case and spacing
Titles == { <<"a">>, <<"A", " ">>, <<"b">> }

VARIABLES
  listing,      \* [Cities -> Seq(row)]: what the listing endpoint serves, newest first
  nextId,       \* the id the source gives the next game it publishes
  lastGameId,   \* [Cities -> id or None]: cities.csv, column last_game_id
  gamesFile,    \* games.csv: sequence of records
  seriesFile,   \* series.csv: sequence of records
  disc,         \* what the last processNewGames iteration did (a record of the call)
  teamsFile,    \* teams.csv: sequence of records; empty: the file does not exist
  teamCache,    \* CsvStorage.teamCache: the in-memory team index of the process
  nextTeamId,   \* the next fresh team id (uuidv4 never repeats)
  resultsFile,  \* results.csv: sequence of records
  fetch,        \* what the last processPendingResults iteration did
  header,       \* the cells of the header row of a results table
  columns,      \* what findColumnIndexes made of it, or NoColumns before the call
  proc,         \* the process: where main is, the shutdown flag, the exit
  extraction,   \* one row of a results table or response, and what is made of it
  scrapers,     \* the cities' strategy tags, and what createScraper returned for them
  git,          \* the data repository: the local branch, origin's, GitHubStorage.modifiedFiles
  gamesCsv,     \* games.csv as text: its header line and its lines of fields
  scrape,       \* one call of scrapeGames: the endpoint it meets and what it returns
  sched         \* the runMain calls of the process and the task of the schedule

discVars == <<listing, nextId, lastGameId, seriesFile, disc>>
teamVars == <<teamsFile, teamCache, nextTeamId, resultsFile, fetch>>
headerVars == <<header, columns>>
storeVars == <<listing, nextId, lastGameId, gamesFile, seriesFile, disc,
               teamsFile, teamCache, nextTeamId, resultsFile, fetch, header, columns,
               extraction, scrapers, git, gamesCsv, scrape, sched>>
\* every variable but proc and sched
schedRest == <<listing, nextId, lastGameId, gamesFile, seriesFile, disc,
               teamsFile, teamCache, nextTeamId, resultsFile, fetch, header, columns,
               extraction, scrapers, git, gamesCsv, scrape>>
vars == <<listing, nextId, lastGameId, gamesFile, seriesFile, disc,
          teamsFile, teamCache, nextTeamId, resultsFile, fetch, header, columns, proc,
          extraction, scrapers, git, gamesCsv, scrape, sched>>

\* the index of a column that was not found (undefined): no column has it
NoColumn == -1

\* the indexes findColumnIndexes starts from; error is the message of the
\* error it throws, "" when it returns
NoColumns ==
  [team |-> NoColumn, rounds |-> <<>>, total |-> NoColumn, place |-> NoColumn,
   team_city |-> NoColumn, rank |-> NoColumn, error |-> ""]

\* no row read yet
NoRow == [strategy |-> "", rounds |-> <<>>, total |-> <<>>, hasErrors |-> FALSE,
          rankColumn |-> FALSE, badge |-> "", done |-> FALSE,
          result |-> [rounds |-> <<>>, sum |-> 0, has_errors |-> FALSE, rank_id |-> None],
          team |-> [inconsistent_rank |-> FALSE]]

\* no scraper made yet
NoScrapers == [tag |-> [c \in Cities |-> Undefined], made |-> [c \in Cities |-> ""]]

\* the process before its first runMain: no call, no scheduled task
\*   cron    config.cronSchedule is set;  tasks: cron.getTasks().size
\*   calls   for each runMain call so far, where it is: awaiting main in
\*           "newGames", "pending" or "sync", or "done"
\*   ticks   the times the schedule has fired
NoSched == [cron |-> FALSE, tasks |-> 0, calls |-> <<>>, ticks |-> 0, exited |-> FALSE,
            code |-> 0]

\* scrapeGames not called yet
NoScrape ==
  [src |-> <<>>, wm |-> None, net |-> [first |-> <<>>, second |-> <<>>, counts |-> "page"],
   done |-> FALSE, out |-> <<>>]

\* the files of the local store, as git sees them in the working tree
Snapshot ==
  [games |-> gamesFile, series |-> seriesFile, teams |-> teamsFile,
   results |-> resultsFile, cities |-> lastGameId]

\* the data repository after initialize: the working tree is committed and
\* pushed, no file is marked as modified
InitGit ==
  /\ git = [head |-> Snapshot, origin |-> Snapshot, modifiedFiles |-> FALSE]
  /\ gamesCsv = [header |-> <<>>, rows |-> <<>>, saved |-> <<>>]
  /\ scrape = NoScrape
  /\ sched = NoSched

InitHeader ==
  /\ header = <<>>
  /\ columns = NoColumns
  /\ extraction = NoRow
  /\ scrapers = NoScrapers
  /\ InitGit

NoDisc == [n |-> 0, city |-> None, wmBefore |-> None, src |-> <<>>, failed |-> FALSE,
           batch |-> <<>>, saveCalled |-> FALSE, saved |-> FALSE,
           updateCalled |-> FALSE, wmSet |-> FALSE, rerun |-> FALSE]

\* teamCache = null: nothing loaded yet
NoCache == [loaded |-> FALSE, key |-> <<>>, qp |-> <<>>, obj |-> <<>>]

NoFetch == [n |-> 0, game |-> None, strategy |-> "", skipped |-> "", threw |-> FALSE,
            rows |-> <<>>, results |-> <<>>, rejected |-> 0, markThrew |-> FALSE]

\* the process before runMain: config as loaded, nothing running.
\*   pc          where runMain is: "start", "newGames", "pending", "sync",
\*               "return" (main has returned), "idle" (waiting for the schedule)
\*   storage     config.storage.type;  cron: config.cronSchedule is set
\*   hasStorage  createStorage has returned the store
\*   params      [Cities -> [strategy, since]]: city.params.scrape
\*   cityIds     config.cityIds;  excluded: the ids main has filtered out of it
\*   cities, city, games, pending   the loops' remaining cities, the city of the
\*               inner loop, its remaining games, the games read as pending
\*   found       newGames.length
\*   anyNew      newGames.length || processedResults.length
\*   ok          what main returned
\*   cleanup     "" before cleanup, "syncing" while it awaits syncChanges
\*   syncs       the syncChanges calls of cleanup;  signals: the signals received
\*   late        the loop iterations run since the flag was set: 0, 1, or 2 for more
\*   sync        what this run's syncChanges at the end of main came to: "" (not
\*               there yet), "skipped" (not called), or the step of SyncSteps
\*   failedRun   the run whose syncChanges threw last, 0 when none did
\*   exited, code, by   process.exit was called, with which code, by whom
NoProc ==
  [pc |-> "start", runs |-> 0, storage |-> "csv", cron |-> FALSE, hasStorage |-> FALSE,
   params |-> [c \in Cities |-> [strategy |-> Undefined, since |-> None]],
   cityIds |-> {}, excluded |-> {}, cities |-> <<>>, city |-> None, games |-> <<>>,
   pending |-> {}, found |-> FALSE, anyNew |-> FALSE, ok |-> FALSE,
   isShuttingDown |-> FALSE, cleanup |-> "", syncs |-> 0, signals |-> 0, late |-> 0,
   sync |-> "", failedRun |-> 0,
   exited |-> FALSE, code |-> 0, by |-> ""]

InitTeams ==
  /\ teamsFile = <<>>
  /\ teamCache = NoCache
  /\ nextTeamId = 1
  /\ resultsFile = <<>>
  /\ fetch = NoFetch

Init ==
  /\ listing = [c \in Cities |-> <<>>]
  /\ nextId = 1
  /\ lastGameId = [c \in Cities |-> None]
  /\ gamesFile = <<>>
  /\ seriesFile = <<>>
  /\ disc = NoDisc
  /\ InitTeams
  /\ InitHeader
  /\ proc = NoProc

\* the source publishes a game: it becomes the first row of the city's listing
Publish(c, streams) ==
  /\ nextId <= MaxId
  /\ \E t \in Titles, v \in BOOLEAN, st \in streams :
       listing' = [listing EXCEPT ![c] =
                     <<[id |-> nextId, title |-> t, valid |-> v, stream |-> st, throws |-> FALSE]>> \o @]
  /\ nextId' = nextId + 1
  /\ UNCHANGED <<lastGameId, gamesFile, seriesFile, disc, teamVars, headerVars, proc, extraction, scrapers, git, gamesCsv, scrape, sched>>

\* the rows of page p (pages are numbered from 1); empty past the end
Page(src, p) == SubSeq(src, (p - 1) * PageSize + 1, Min(p * PageSize, Len(src)))

(***************************************************************************)
(* Series find-or-create.                                                  *)
(***************************************************************************)
\* findSeriesByName comparing the texts as they are, without normalizing
findSeriesByName_Exact(file, name) ==
  LET hits == {i \in 1..Len(file) : file[i].name = name}
  IN IF hits = {} THEN None ELSE CHOOSE i \in hits : \A j \in hits : i <= j

\* CsvStorage.findSeriesByName: the first record whose normalized lowercase
\* name equals that of the given name; its index in the file, or None
findSeriesByName(file, name) ==
  LET hits == {i \in 1..Len(file) : NormKey(file[i].name) = NormKey(name)}
  IN IF hits = {} THEN None ELSE CHOOSE i \in hits : \A j \in hits : i <= j

\* CsvStorage.saveSeries: append one record
saveSeries(file, series) == Append(file, series)

\* lines 61-70 of scrapeGames: <<series file after the row, id of the row's series>>
FindOrCreateSeries(file, title) ==
  LET i == findSeriesByName(file, title)
  IN IF i # None THEN <<file, file[i].id>>
     ELSE <<saveSeries(file, [id |-> Len(file) + 1, name |-> normalizeText(title)]),
            Len(file) + 1>>

(***************************************************************************)
(* scrapeGames for one city.                                               *)
(***************************************************************************)
\* pages scrapeGames requests before the model gives up following it
MaxPages == 4

\* what the listing endpoint does beyond the rows it serves: first[p] is the
\* response to the request of page p ("json", "nonjson": another content
\* type, "error": the request throws), second[p] the response to its retry
\* ("nonjson": a body without the listing), counts what the count of a
\* response is: the rows of the "page" or the "total" of the listing
ResponseAt(responses, p) == IF p \in DOMAIN responses THEN responses[p] ELSE "json"

\* an endpoint that answers every request, but for the request of page
\* failPage, which throws
FailAt(failPage) ==
  [first |-> [p \in 1..failPage |-> IF p = failPage THEN "error" ELSE "json"],
   second |-> <<>>, counts |-> "page"]

\* the request of a page made once, whatever the content type
RequestPage_NoRetry(net, p) ==
  [usable |-> ResponseAt(net.first, p) = "json", requests |-> 1]

\* lines 48-55: the request of page p, and its retry when the response is
\* not JSON; usable: response.data.data.data can be read
RequestPage(net, p) ==
  LET first == ResponseAt(net.first, p)
  IN IF first = "error" THEN [usable |-> FALSE, requests |-> 1]
     ELSE IF first = "json" THEN [usable |-> TRUE, requests |-> 1]
     ELSE [usable |-> ResponseAt(net.second, p) = "json", requests |-> 2]

\* response.data.data.count
PageCount(src, rows, net) == IF net.counts = "total" THEN Len(src) ELSE Len(rows)

\* hasMore when the count is not looked at
HasMore_IgnoreCount(count, shouldStop) == ~shouldStop

\* line 119: hasMore = response.data.data.count > 0 && !shouldStop
HasMore(count, shouldStop) == count > 0 /\ ~shouldStop

\* the loop over the rows of one page, from row i on
RECURSIVE ScrapeRows(_, _, _, _, _)

\* the loop body for row i; fs is what finding or creating the series of the
\* row gave.  Building the game of a row throws when the row lacks a field
\* the code dereferences (throws); a row that fails GameSchema.parse is
\* dropped (not valid).
ScrapeRow(rows, i, st, c, wm, fs) ==
  LET row == rows[i]
      isDuplicate == \E k \in 1..Len(st.games) : st.games[k].id = row.id
  IN IF row.throws
       THEN [st EXCEPT !.series = fs[1], !.threw = TRUE]
     ELSE IF isDuplicate
       THEN [st EXCEPT !.series = fs[1], !.hasMore = FALSE, !.shouldStop = TRUE]
     ELSE IF wm # None /\ row.id = wm
       THEN [st EXCEPT !.series = fs[1], !.shouldStop = TRUE]
     ELSE IF row.valid
       THEN ScrapeRows(rows, i + 1,
              [st EXCEPT !.series = fs[1],
                         !.games = Append(@, [id |-> row.id, city |-> c, series |-> fs[2],
                                        stream |-> row.stream])],
              c, wm)
     ELSE ScrapeRows(rows, i + 1, [st EXCEPT !.series = fs[1]], c, wm)

ScrapeRows(rows, i, st, c, wm) ==
  IF i > Len(rows) THEN st
  ELSE ScrapeRow(rows, i, st, c, wm, FindOrCreateSeries(st.series, rows[i].title))

\* the while loop over pages, with the endpoint net.
\* st.page is the page the loop is at; st.requests the requests made for each
\* page so far; st.capped: the loop was still going after MaxPages pages.
RECURSIVE ScrapePages(_, _, _, _, _)

\* the end of the try of a page, st being the state after the row loop: the
\* catch when a row threw, else hasMore, page++ and the next turn of the loop
PageEnd(src, st, c, wm, net) ==
  IF st.threw THEN [st EXCEPT !.hasMore = FALSE, !.failed = TRUE]
  ELSE ScrapePages(src,
         [st EXCEPT !.hasMore = HasMore(PageCount(src, Page(src, st.page), net), st.shouldStop),
                    !.page = @ + 1],
         c, wm, net)

\* the try of a page once its requests are made: the catch when there is no
\* usable response, else the row loop
ScrapePage(src, st, c, wm, net) ==
  IF ~RequestPage(net, st.page).usable THEN [st EXCEPT !.hasMore = FALSE, !.failed = TRUE]
  ELSE PageEnd(src, ScrapeRows(Page(src, st.page), 1, st, c, wm), c, wm, net)

ScrapePages(src, st, c, wm, net) ==
  IF ~(st.hasMore /\ ~st.shouldStop) THEN st
  ELSE IF st.page > MaxPages THEN [st EXCEPT !.capped = TRUE]
  ELSE ScrapePage(src,
         [st EXCEPT !.requests = Append(@, RequestPage(net, st.page).requests)], c, wm, net)

\* the variables of scrapeGames at the start of a city
StartPages(file) ==
  [games |-> <<>>, series |-> file, hasMore |-> TRUE, shouldStop |-> FALSE,
   page |-> 1, failed |-> FALSE, threw |-> FALSE, requests |-> <<>>, capped |-> FALSE]

\* what scrapeGames returns and leaves when its loop ended in st: the games
\* oldest first, the series file, the pages it requested, whether the
\* pagination was abandoned, the requests per page
ScrapeOutcome(st) ==
  [games |-> Reverse(st.games), series |-> st.series,
   pages |-> IF st.failed THEN st.page ELSE st.page - 1, failed |-> st.failed,
   threw |-> st.threw, requests |-> st.requests, capped |-> st.capped]

\* scrapeGames([city]) with the endpoint net
scrapeGamesNet(src, c, wm, file, net) ==
  ScrapeOutcome(ScrapePages(src, StartPages(file), c, wm, net))

\* scrapeGames returning the games in fetch order (the final reverse left out)
scrapeGames_FetchOrder(src, c, wm, file, failPage) ==
  [scrapeGamesNet(src, c, wm, file, FailAt(failPage)) EXCEPT !.games = Reverse(@)]

\* scrapeGames([city]) when the request of page failPage throws
scrapeGames(src, c, wm, file, failPage) ==
  scrapeGamesNet(src, c, wm, file, FailAt(failPage))

(***************************************************************************)
(* The store: games and cities.                                            *)
(***************************************************************************)
\* CsvStorage.saveGames: append the games, each with processed = false
saveGames(file, games) ==
  file \o [i \in 1..Len(games) |-> [id |-> games[i].id, city |-> games[i].city,
                                     series |-> games[i].series,
                                     stream |-> games[i].stream, processed |-> FALSE]]

\* CsvStorage.updateCityLastGameId
updateCityLastGameId(wms, c, id) == [wms EXCEPT ![c] = id]

Ids(s) == [i \in 1..Len(s) |-> s[i].id]

\* the try block setting the watermark to the oldest game of the batch
NewGamesOutcome_OldestId(c, r, saveOk, updOk) ==
  LET cityGames == r.games
      any == Len(cityGames) > 0
  IN /\ seriesFile' = r.series
     /\ gamesFile' = IF any /\ saveOk THEN saveGames(gamesFile, cityGames) ELSE gamesFile
     /\ lastGameId' = IF any /\ saveOk /\ updOk
                        THEN updateCityLastGameId(lastGameId, c, cityGames[1].id)
                        ELSE lastGameId
     /\ disc' = [n |-> disc.n + 1, city |-> c, wmBefore |-> lastGameId[c],
                 src |-> listing[c], failed |-> r.failed, batch |-> Ids(cityGames),
                 saveCalled |-> any, saved |-> any /\ saveOk,
                 updateCalled |-> any /\ saveOk, wmSet |-> any /\ saveOk /\ updOk,
                 rerun |-> disc.city = c /\ disc.saved /\ disc.wmSet /\ disc.src = listing[c]]

\* the try block updating the watermark whether saveGames succeeded or not
NewGamesOutcome_UpdateUnsaved(c, r, saveOk, updOk) ==
  LET cityGames == r.games
      any == Len(cityGames) > 0
  IN /\ seriesFile' = r.series
     /\ gamesFile' = IF any /\ saveOk THEN saveGames(gamesFile, cityGames) ELSE gamesFile
     /\ lastGameId' = IF any /\ updOk
                        THEN updateCityLastGameId(lastGameId, c, cityGames[Len(cityGames)].id)
                        ELSE lastGameId
     /\ disc' = [n |-> disc.n + 1, city |-> c, wmBefore |-> lastGameId[c],
                 src |-> listing[c], failed |-> r.failed, batch |-> Ids(cityGames),
                 saveCalled |-> any, saved |-> any /\ saveOk,
                 updateCalled |-> any, wmSet |-> any /\ updOk,
                 rerun |-> disc.city = c /\ disc.saved /\ disc.wmSet /\ disc.src = listing[c]]

\* the body of processNewGames' try block for one city, given the outcome of
\* scrapeGames and whether the two store writes succeed
NewGamesOutcome(c, r, saveOk, updOk) ==
  LET cityGames == r.games
      any == Len(cityGames) > 0
  IN /\ seriesFile' = r.series
     /\ gamesFile' = IF any /\ saveOk THEN saveGames(gamesFile, cityGames) ELSE gamesFile
     /\ lastGameId' = IF any /\ saveOk /\ updOk
                        THEN updateCityLastGameId(lastGameId, c, cityGames[Len(cityGames)].id)
                        ELSE lastGameId
     /\ disc' = [n |-> disc.n + 1, city |-> c, wmBefore |-> lastGameId[c],
                 src |-> listing[c], failed |-> r.failed, batch |-> Ids(cityGames),
                 saveCalled |-> any, saved |-> any /\ saveOk,
                 updateCalled |-> any /\ saveOk, wmSet |-> any /\ saveOk /\ updOk,
                 \* the previous iteration persisted this city's batch and set its
                 \* watermark, and the source has not changed since
                 rerun |-> disc.city = c /\ disc.saved /\ disc.wmSet /\ disc.src = listing[c]]

\* one iteration of processNewGames' loop over the cities: scrapeGames, then
\* saveGames and updateCityLastGameId when games were found.  A request of
\* one of the pages may fail, and so may either write.
NewGamesIteration(c) ==
  \E r0 \in {scrapeGames(listing[c], c, lastGameId[c], seriesFile, 0)} :
    \E failPage \in 0..r0.pages :
      \E r \in {IF failPage = 0 THEN r0
                ELSE scrapeGames(listing[c], c, lastGameId[c], seriesFile, failPage)} :
        \E w \in IF Len(r.games) = 0 THEN {<<TRUE, TRUE>>}
                 ELSE {<<TRUE, TRUE>>, <<TRUE, FALSE>>, <<FALSE, FALSE>>} :
          NewGamesOutcome(c, r, w[1], w[2])

\* an iteration of that loop for city c, whatever the process is at
ProcessNewGamesCity(c) ==
  /\ disc.n < MaxRuns
  /\ NewGamesIteration(c)
  /\ UNCHANGED <<listing, nextId, teamVars, headerVars, proc, extraction, scrapers, git, gamesCsv, scrape, sched>>

(***************************************************************************)
(* Slugs.                                                                  *)
(***************************************************************************)
Digits == <<"0", "1", "2", "3", "4", "5", "6", "7", "8", "9">>

\* a counter as text: `${counter}`
RECURSIVE DecString(_)
DecString(n) ==
  IF n < 10 THEN <<Digits[n + 1]>> ELSE DecString(n \div 10) \o <<Digits[(n % 10) + 1]>>

IsAlnum(ch) == ch \in {"a", "b"} \/ \E d \in 1..10 : Digits[d] = ch

RECURSIVE KeepSlugChars(_)
KeepSlugChars(s) ==
  IF s = <<>> THEN <<>>
  ELSE IF IsAlnum(Head(s)) \/ IsSpace(Head(s)) THEN <<Head(s)>> \o KeepSlugChars(Tail(s))
  ELSE KeepSlugChars(Tail(s))

\* generateSlug: lowercase; slugify (strict) turns the replacement character
\* "-" into a space, drops what is neither a letter, a digit nor whitespace,
\* trims, and joins the words with "-"
generateSlug(name) ==
  LET lowered == toLowerCase(name)
      spaced == [i \in 1..Len(lowered) |-> IF lowered[i] = "-" THEN " " ELSE lowered[i]]
      words == CollapseSpaces(Trim(KeepSlugChars(spaced)))
  IN [i \in 1..Len(words) |-> IF IsSpace(words[i]) THEN "-" ELSE words[i]]

\* CsvStorage.findTeamBySlugAndCity: reads the file, never the index
findTeamBySlugAndCity(file, slug, cityId) ==
  LET hits == {i \in 1..Len(file) : file[i].slug = slug /\ file[i].city = cityId}
  IN IF hits = {} THEN None ELSE file[CHOOSE i \in hits : \A j \in hits : i <= j].id

\* generateUniqueTeamSlug returning the base slug without probing the store
generateUniqueTeamSlug_NoProbe(baseName, cityId, file) == generateSlug(baseName)

\* the while loop suffixing the slug it has just tried
RECURSIVE UniqueSlugLoop_SuffixPrevious(_, _, _, _, _)
UniqueSlugLoop_SuffixPrevious(slug, counter, baseName, cityId, file) ==
  IF findTeamBySlugAndCity(file, slug, cityId) = None THEN slug
  ELSE UniqueSlugLoop_SuffixPrevious(slug \o <<"-">> \o DecString(counter),
                                     counter + 1, baseName, cityId, file)

\* the while loop of generateUniqueTeamSlug
RECURSIVE UniqueSlugLoop(_, _, _, _, _)
UniqueSlugLoop(slug, counter, baseName, cityId, file) ==
  IF findTeamBySlugAndCity(file, slug, cityId) = None THEN slug
  ELSE UniqueSlugLoop(generateSlug(baseName) \o <<"-">> \o DecString(counter),
                      counter + 1, baseName, cityId, file)

generateUniqueTeamSlug(baseName, cityId, file) ==
  UniqueSlugLoop(generateSlug(baseName), 1, baseName, cityId, file)

(***************************************************************************)
(* The store: teams, and the in-memory index.                              *)
(*                                                                         *)
(* The index maps keys to Team objects.  An object is shared by both maps  *)
(* and by the caller that looked it up, so an assignment to its qp_id is   *)
(* seen through every reference: teamCache.obj is the heap of these        *)
(* objects, by team id, and the maps hold team ids.                        *)
(***************************************************************************)
\* CsvStorage.getCacheKey: `${normalizeText(name).toLowerCase()}_${cityId}`
getCacheKey(name, cityId) == <<"k", NormKey(name), cityId>>

\* a team's _id used as a key of the same map (updateTeams)
IdKey(id) == <<"i", <<>>, id>>

Get(map, k) == IF k \in DOMAIN map THEN map[k] ELSE None

Put(map, k, v) == [x \in (DOMAIN map) \cup {k} |-> IF x = k THEN v ELSE map[x]]

\* the loop of loadTeamCache over the records, from record i on
RECURSIVE LoadRecords(_, _, _)
LoadRecords(file, i, cache) ==
  IF i > Len(file) THEN cache
  ELSE LET team == file[i]
       IN LoadRecords(file, i + 1,
            [cache EXCEPT !.key = Put(@, getCacheKey(team.name, team.city), team.id),
                          !.qp = IF team.qp # None THEN Put(@, team.qp, team.id) ELSE @,
                          !.obj = Put(@, team.id, team)])

\* CsvStorage.loadTeamCache: once per process
loadTeamCache(file, cache) ==
  IF cache.loaded THEN cache
  ELSE LoadRecords(file, 1, [loaded |-> TRUE, key |-> <<>>, qp |-> <<>>, obj |-> <<>>])

\* findTeamByNameAndCity comparing the name as typed, without normalizing
findTeamByNameAndCity_Exact(cache, name, cityId) == Get(cache.key, <<"k", name, cityId>>)

\* CsvStorage.findTeamByNameAndCity, on a loaded index: a team id or None
findTeamByNameAndCity(cache, name, cityId) == Get(cache.key, getCacheKey(name, cityId))

\* CsvStorage.findTeamByQpId, on a loaded index
findTeamByQpId(cache, qpId) == Get(cache.qp, qpId)

\* CsvStorage.saveTeam: the index first (when loaded), then the file.  When
\* the file does not exist, the record is written without its qp_id.
saveTeam(S, team) ==
  [file |-> IF S.file = <<>> THEN <<[team EXCEPT !.qp = None]>> ELSE Append(S.file, team),
   cache |-> IF S.cache.loaded
               THEN [S.cache EXCEPT
                       !.key = Put(@, getCacheKey(team.name, team.city), team.id),
                       !.qp = IF team.qp # None THEN Put(@, team.qp, team.id) ELSE @,
                       !.obj = Put(@, team.id, team)]
               ELSE S.cache]

\* teams.forEach of updateTeams, from element i on
RECURSIVE UpdateIndex(_, _, _)
UpdateIndex(cache, teams, i) ==
  IF i > Len(teams) THEN cache
  ELSE LET team == cache.obj[teams[i]]
       IN UpdateIndex([cache EXCEPT !.key = Put(@, IdKey(team.id), team.id),
                                    !.qp = IF team.qp # None THEN Put(@, team.qp, team.id) ELSE @],
                      teams, i + 1)

\* CsvStorage.updateTeams(teams): teams are references (ids) to index objects.
\* The index is updated first; reading a file that does not exist then throws.
updateTeams(S, teams) ==
  LET cache == UpdateIndex(loadTeamCache(S.file, S.cache), teams, 1)
      idsToUpdate == {teams[i] : i \in 1..Len(teams)}
  IN [file |-> [i \in 1..Len(S.file) |->
                  IF S.file[i].id \in idsToUpdate
                    THEN cache.obj[Get(cache.key, IdKey(S.file[i].id))]
                    ELSE S.file[i]],
      cache |-> cache,
      threw |-> S.file = <<>>]

(***************************************************************************)
(* Cities and strategies.                                                  *)
(***************************************************************************)
\* cities.csv, column name
CityName == <<  <<"m">>, <<"s">>  >>

\* the strategy tag of each city's configuration
CityStrategyTag == << Undefined, "v2" >>

\* Object.keys(strategies)
availableStrategies == {"v1", "v2"}

\* properties every object literal inherits that are functions but no
\* constructors, or no functions at all
NotConstructors == {"toString", "valueOf", "hasOwnProperty", "__proto__"}

\* strategies[strategyKey]: an own property, or one inherited from
\* Object.prototype, or undefined
StrategyLookup(strategyKey) ==
  IF strategyKey \in availableStrategies THEN strategyKey
  ELSE IF strategyKey = "constructor" THEN "Object"
  ELSE IF strategyKey \in NotConstructors THEN "not a constructor"
  ELSE Undefined

\* createScraper, given the city's tag: the strategy of the object it returns
\* ("v1", "v2"); "city" when it returns the city object itself (new Object(city,
\* ...)); "TypeError" when it throws
createScraper(tag) ==
  LET strategyKey == IF tag = Undefined THEN "v1" ELSE tag
      ScraperClass == StrategyLookup(strategyKey)
  IN IF ScraperClass = Undefined THEN "v1"
     ELSE IF ScraperClass \in availableStrategies THEN ScraperClass
     ELSE IF ScraperClass = "Object" THEN "city"
     ELSE "TypeError"

\* CsvStorage.findCityByName: a city id or None
findCityByName(name) ==
  LET hits == {c \in Cities : NormKey(CityName[c]) = NormKey(name)}
  IN IF hits = {} THEN None ELSE CHOOSE c \in hits : \A d \in hits : c <= d

(***************************************************************************)
(* The column classifier of the HTML strategy.                             *)
(*                                                                         *)
(* A header row is a sequence of cell texts.  Column indexes count from 0, *)
(* as in the code; a column that was not found is NoColumn.                *)
(***************************************************************************)
\* header cells of the longest header row
MaxCols == 5

\* String.prototype.includes
Includes(text, variant) ==
  \E i \in 1..(Len(text) - Len(variant) + 1) :
    SubSeq(text, i, i + Len(variant) - 1) = variant

\* columnMatchers.*.variants
TeamVariants ==
  { <<"cy-en", "cy-a", "cy-ze", "cy-ve", "cy-a", "cy-en", "cy-i", "cy-ie", " ", "cy-ka", "cy-o", "cy-em", "cy-a", "cy-en", "cy-de", "cy-yeru">>,
    <<"cy-ka", "cy-o", "cy-em", "cy-a", "cy-en", "cy-de", "cy-a">>,
    <<"cy-en", "cy-a", "cy-ze", "cy-ve", "cy-a", "cy-en", "cy-i", "cy-ie", " ", "cy-ka", "cy-o", "cy-em", "cy-a", "cy-en", "cy-de">>,
    <<"t", "e", "a", "m">>,
    <<"cy-en", "cy-a", "cy-ze", "cy-ve", "cy-a", "cy-en", "cy-i", "cy-ie">>,
    <<"cy-en", "cy-a", "cy-ha", "cy-ve", "cy-a", "cy-en", "cy-i", "cy-ie">>,
    <<"cy-en", "cy-a", "cy-ve", "cy-a", "cy-en", "cy-i", "cy-ie">>,
    <<"cy-en", "cy-a", "cy-ze", "cy-ve", "cy-a", "cy-en", "cy-i", "cy-ya", " ", "cy-ka", "cy-o", "cy-em", "cy-a", "cy-en", "cy-de">> }

RoundVariants ==
  { <<"cy-er", "cy-a", "cy-u", "cy-en", "cy-de">>,
    <<"r", "o", "u", "n", "d">>,
    <<"cy-te", "cy-u", "cy-er">>,
    <<"cy-be", "cy-el", "cy-o", "cy-ka">>,
    <<"t", "o", "u", "r">>,
    <<" ", "ndash", " ">>,
    <<"1", "-", "2", "0">>,
    <<"2", "1", "-", "4", "0">>,
    <<"4", "1", "-", "5", "0">> }

TotalVariants ==
  { <<"cy-i", "cy-te", "cy-o", "cy-ghe", "cy-o">>,
    <<"cy-es", "cy-u", "cy-em", "cy-em", "cy-a">>,
    <<"t", "o", "t", "a", "l">>,
    <<"cy-ve", "cy-es", "cy-ie", "cy-ghe", "cy-o">>,
    <<"cy-er", "cy-ie", "cy-ze", "cy-u", "cy-el", "cy-soft-sign", "cy-te", "cy-a", "cy-te">>,
    <<"cy-i", "cy-te", "cy-o", "cy-ghe">> }

TeamCityVariants ==
  { <<"cy-ghe", "cy-o", "cy-er", "cy-o", "cy-de">>,
    <<"c", "i", "t", "y">> }

PlaceVariants ==
  { <<"cy-em", "cy-ie", "cy-es", "cy-te", "cy-o">>,
    <<"p", "l", "a", "c", "e">>,
    <<"p", "o", "s", "i", "t", "i", "o", "n">>,
    <<"cy-pe", "cy-o", "cy-ze", "cy-i", "cy-tse", "cy-i", "cy-ya">> }

RankVariants ==
  { <<"cy-er", "cy-a", "cy-en", "cy-ghe">>,
    <<"r", "a", "n", "k">>,
    <<"cy-u", "cy-er", "cy-o", "cy-ve", "cy-ie", "cy-en", "cy-soft-sign">>,
    <<"l", "e", "v", "e", "l">> }

\* columnMatchers.*.findColumn: some variant is part of the text, both in
\* lowercase
findColumn(variants, text) ==
  \E lowered \in {toLowerCase(text)} :
    \E variant \in variants : Includes(lowered, toLowerCase(variant))

\* the callback trying the matchers in the order of their declaration
\* (team, round, total, team_city, place, rank) and from the last on
ClassifyCell_OtherOrder(cellText, colIndex, indexes) ==
  IF findColumn(RankVariants, cellText) THEN [indexes EXCEPT !.rank = colIndex]
  ELSE IF findColumn(PlaceVariants, cellText) THEN [indexes EXCEPT !.place = colIndex]
  ELSE IF findColumn(TeamCityVariants, cellText)
    THEN [indexes EXCEPT !.team_city = colIndex]
  ELSE IF findColumn(TotalVariants, cellText) THEN [indexes EXCEPT !.total = colIndex]
  ELSE IF findColumn(RoundVariants, cellText)
    THEN [indexes EXCEPT !.rounds = Append(@, colIndex)]
  ELSE IF findColumn(TeamVariants, cellText) THEN [indexes EXCEPT !.team = colIndex]
  ELSE indexes

\* the callback of findColumnIndexes' .each: the first matcher that finds the
\* cell's text decides the column
ClassifyCell(cellText, colIndex, indexes) ==
  IF findColumn(TeamVariants, cellText) THEN [indexes EXCEPT !.team = colIndex]
  ELSE IF findColumn(RoundVariants, cellText)
    THEN [indexes EXCEPT !.rounds = Append(@, colIndex)]
  ELSE IF findColumn(TotalVariants, cellText) THEN [indexes EXCEPT !.total = colIndex]
  ELSE IF findColumn(PlaceVariants, cellText) THEN [indexes EXCEPT !.place = colIndex]
  ELSE IF findColumn(TeamCityVariants, cellText)
    THEN [indexes EXCEPT !.team_city = colIndex]
  ELSE IF findColumn(RankVariants, cellText) THEN [indexes EXCEPT !.rank = colIndex]
  ELSE indexes

\* the .each of findColumnIndexes over the header cells, from cell i on
\* (column index i - 1); the cell's text is trimmed and in lowercase
RECURSIVE ClassifyCells(_, _, _)
ClassifyCells(cells, i, indexes) ==
  IF i > Len(cells) THEN indexes
  ELSE ClassifyCells(cells, i + 1,
                     ClassifyCell(toLowerCase(Trim(cells[i])), i - 1, indexes))

\* the checks that end findColumnIndexes: the error thrown, or "" for none
RequiredColumns(indexes) ==
  IF indexes.team = NoColumn THEN "Team name column not found"
  ELSE IF Len(indexes.rounds) = 0 THEN "No round columns found"
  ELSE IF indexes.total = NoColumn THEN "Total score column not found"
  ELSE ""

\* findColumnIndexes without the inference of the placement column
findColumnIndexes_NoInference(cells) ==
  LET indexes == ClassifyCells(cells, 1, NoColumns)
  IN [indexes EXCEPT !.error = RequiredColumns(indexes)]

\* findColumnIndexes: the indexes, with error = "" when it returns and the
\* message of the error when it throws
findColumnIndexes(cells) ==
  LET indexes == ClassifyCells(cells, 1, NoColumns)
      inferred == IF indexes.place = NoColumn /\ Len(cells) > 0 /\ cells[1] = <<>>
                    THEN [indexes EXCEPT !.place = 0]
                    ELSE indexes
  IN [inferred EXCEPT !.error = RequiredColumns(inferred)]

\* the header of the usual results table: an empty cell, the team, two
\* rounds and the total
ExampleHeader ==
  << <<>>,
     <<"CY-KA", "cy-o", "cy-em", "cy-a", "cy-en", "cy-de", "cy-a">>,
     <<"CY-ER", "cy-a", "cy-u", "cy-en", "cy-de", " ", "1", "-", "2", "0">>,
     <<"CY-ER", "cy-a", "cy-u", "cy-en", "cy-de", " ", "2", "1", "-", "4", "0">>,
     <<"CY-I", "cy-te", "cy-o", "cy-ghe", "cy-o">> >>

\* the usual header without its team cell
NoTeamHeader ==
  << <<>>,
     <<"CY-ER", "cy-a", "cy-u", "cy-en", "cy-de", " ", "1", "-", "2", "0">>,
     <<"CY-ER", "cy-a", "cy-u", "cy-en", "cy-de", " ", "2", "1", "-", "4", "0">>,
     <<"CY-I", "cy-te", "cy-o", "cy-ghe", "cy-o">> >>

\* the usual header without its round cells
NoRoundHeader ==
  << <<>>,
     <<"CY-KA", "cy-o", "cy-em", "cy-a", "cy-en", "cy-de", "cy-a">>,
     <<"CY-I", "cy-te", "cy-o", "cy-ghe", "cy-o">> >>

\* the usual header without its total cell
NoTotalHeader ==
  << <<>>,
     <<"CY-KA", "cy-o", "cy-em", "cy-a", "cy-en", "cy-de", "cy-a">>,
     <<"CY-ER", "cy-a", "cy-u", "cy-en", "cy-de", " ", "1", "-", "2", "0">>,
     <<"CY-ER", "cy-a", "cy-u", "cy-en", "cy-de", " ", "2", "1", "-", "4", "0">> >>

\* a header with neither a team nor a round cell
NoTableHeader ==
  << <<>>,
     <<"CY-I", "cy-te", "cy-o", "cy-ghe", "cy-o">> >>

\* the header rows a game page can serve
ResultHeaders == {ExampleHeader, NoTeamHeader, NoRoundHeader, NoTotalHeader, NoTableHeader}

\* $(table).find('thead td').text(): the texts of the cells, joined
RECURSIVE JoinCells(_)
JoinCells(cells) == IF cells = <<>> THEN <<>> ELSE Head(cells) \o JoinCells(Tail(cells))

\* the filter that picks the results table of a page by its header text
TableFilter(cells) ==
  \E headerText \in {toLowerCase(JoinCells(cells))} :
    findColumn(TeamVariants, headerText) \/ findColumn(RoundVariants, headerText)

\* for each header row a page can serve: whether the filter finds the table,
\* and what findColumnIndexes makes of its header row
ClassifiedHeaders ==
  [cells \in ResultHeaders |->
     [found |-> TableFilter(cells), columns |-> findColumnIndexes(cells)]]

(***************************************************************************)
(* scrapeResults.                                                          *)
(*                                                                         *)
(* A table row is [name, qp, teamCity, place]: the team name as typed, the *)
(* team's external id (API only), the text of the team-city cell (HTML     *)
(* only) and the reported placement.  GameResultSchema rejects a negative  *)
(* placement, which throws out of the row loop.                            *)
(***************************************************************************)
\* GameResultSchema.parse, as far as a row decides it: place is min(0).  The
\* game id is taken to pass (the HTML strategy's schema dates from game ids
\* that were numbers).
GameResultSchemaOk(row) == row.place >= 0

\* what teams.csv holds when a row is read: the id of the first record with
\* the row's name (normalized, lowercase) and city, or None
StoredTeam(file, name, cityId) ==
  LET hits == {i \in 1..Len(file) :
                 NormKey(file[i].name) = NormKey(name) /\ file[i].city = cityId}
  IN IF hits = {} THEN None ELSE file[CHOOSE i \in hits : \A j \in hits : i <= j].id

\* whether teams.csv holds a record with that slug and city
SlugStored(file, slug, cityId) ==
  \E i \in 1..Len(file) : file[i].slug = slug /\ file[i].city = cityId

\* the record of one row of a fetch: the name and city looked up, the external
\* id, what the two lookups returned, the team the row was given, the team
\* teams.csv held under that name, and for a created team its slug and whether
\* teams.csv held that slug when generateUniqueTeamSlug returned it
RowRecord(name, cityId, qp, byQp, byName, team, file, new) ==
  [name |-> name, city |-> cityId, qp |-> qp, byQp |-> byQp, byName |-> byName,
   team |-> team, stored |-> StoredTeam(file, name, cityId),
   created |-> byQp = None /\ byName = None,
   slug |-> IF byQp = None /\ byName = None THEN new.slug ELSE <<>>,
   slugTaken |-> byQp = None /\ byName = None /\ SlugStored(file, new.slug, cityId)]

NewTeam(id, qp, cityId, name, file) ==
  [id |-> id, qp |-> qp, city |-> cityId, name |-> normalizeText(name),
   slug |-> generateUniqueTeamSlug(name, cityId, file)]

\* the row loop of the HTML strategy, from row i on.
\* st = [file, cache, next, rows, results, threw, rejected]; rejected is the
\* row GameResultSchema.parse threw at, 0 when it threw at none
RECURSIVE ResultRowsV1(_, _, _, _, _)
ResultRowsV1(table, i, st, gameId, c) ==
  IF i > Len(table) THEN st
  ELSE
    LET row == table[i]
        found == findCityByName(row.teamCity)
        team_city == IF found # None THEN found ELSE c
        cache == loadTeamCache(st.file, st.cache)
        hit == findTeamByNameAndCity(cache, row.name, team_city)
        new == NewTeam(st.next, None, team_city, row.name, st.file)
        S == IF hit # None THEN [file |-> st.file, cache |-> cache]
             ELSE saveTeam([file |-> st.file, cache |-> cache], new)
        team == IF hit # None THEN hit ELSE st.next
        st1 == [st EXCEPT !.file = S.file, !.cache = S.cache,
                          !.next = IF hit # None THEN @ ELSE @ + 1,
                          !.rows = Append(@, RowRecord(row.name, team_city, None, None, hit,
                                                       team, st.file, new))]
    IN IF ~GameResultSchemaOk(row) THEN [st1 EXCEPT !.threw = TRUE, !.rejected = i]
       ELSE ResultRowsV1(table, i + 1,
              [st1 EXCEPT !.results = Append(@, [game |-> gameId, team |-> team])],
              gameId, c)

\* the row loop of the API strategy, from row i on.
\* st = [file, cache, next, rows, results, threw, teamsToUpdate]
RECURSIVE ResultRowsV2(_, _, _, _, _)
ResultRowsV2(table, i, st, gameId, c) ==
  IF i > Len(table) THEN st
  ELSE
    LET row == table[i]
        cache == loadTeamCache(st.file, st.cache)
        byQp == findTeamByQpId(cache, row.qp)
        byName == IF byQp # None THEN None ELSE findTeamByNameAndCity(cache, row.name, c)
        \* team.qp_id = teamQpId: an assignment to the index's own object
        backfilled == IF byName # None
                        THEN [cache EXCEPT !.obj[byName].qp = row.qp]
                        ELSE cache
        new == NewTeam(st.next, row.qp, c, row.name, st.file)
        S == IF byQp # None \/ byName # None THEN [file |-> st.file, cache |-> backfilled]
             ELSE saveTeam([file |-> st.file, cache |-> cache], new)
        created == byQp = None /\ byName = None
        team == IF byQp # None THEN byQp ELSE IF byName # None THEN byName ELSE st.next
        st1 == [st EXCEPT !.file = S.file, !.cache = S.cache,
                          !.next = IF created THEN @ + 1 ELSE @,
                          !.teamsToUpdate = IF byName # None THEN Append(@, byName) ELSE @,
                          !.rows = Append(@, RowRecord(row.name, c, row.qp, byQp, byName,
                                                       team, st.file, new))]
    IN IF ~GameResultSchemaOk(row) THEN [st1 EXCEPT !.threw = TRUE, !.rejected = i]
       ELSE ResultRowsV2(table, i + 1,
              [st1 EXCEPT !.results = Append(@, [game |-> gameId, team |-> team])],
              gameId, c)

StartRows(file, cache, next) ==
  [file |-> file, cache |-> cache, next |-> next, rows |-> <<>>, results |-> <<>>,
   threw |-> FALSE, teamsToUpdate |-> <<>>, rejected |-> 0]

\* scrapeResults of the HTML strategy reading the rows whatever the header is
scrapeResultsV1_AnyHeader(cells, table, gameId, c, file, cache, next) ==
  LET st == ResultRowsV1(table, 1, StartRows(file, cache, next), gameId, c)
  IN [st EXCEPT !.results = IF st.threw THEN <<>> ELSE @]

\* scrapeResults of the HTML strategy, for a page whose table has the header
\* row cells: without a table that passes the filter it returns no result;
\* an error of findColumnIndexes or in a row is caught and the call returns
\* no result
scrapeResultsV1(cells, table, gameId, c, file, cache, next) ==
  LET page == ClassifiedHeaders[cells]
      start == StartRows(file, cache, next)
      st == ResultRowsV1(table, 1, start, gameId, c)
  IN IF ~page.found THEN start
     ELSE IF page.columns.error # "" THEN [start EXCEPT !.threw = TRUE]
     ELSE [st EXCEPT !.results = IF st.threw THEN <<>> ELSE @]

\* scrapeResults of the API strategy: updateTeams runs after the row loop,
\* and not at all when a row threw
scrapeResultsV2(table, gameId, c, file, cache, next) ==
  LET st == ResultRowsV2(table, 1, StartRows(file, cache, next), gameId, c)
      U == updateTeams([file |-> st.file, cache |-> st.cache], st.teamsToUpdate)
  IN IF st.threw THEN [st EXCEPT !.results = <<>>]
     ELSE IF U.threw THEN [st EXCEPT !.cache = U.cache, !.threw = TRUE, !.results = <<>>]
     ELSE [st EXCEPT !.file = U.file, !.cache = U.cache]

\* ScraperStrategy.scrapeResults of the city's strategy
scrapeResults(strategy, cells, table, gameId, c, file, cache, next) ==
  IF strategy = "v2" THEN scrapeResultsV2(table, gameId, c, file, cache, next)
  ELSE scrapeResultsV1(cells, table, gameId, c, file, cache, next)

(***************************************************************************)
(* processPendingResults.                                                  *)
(***************************************************************************)
\* team names as the source types them: the first two have one dedup key; the
\* first three have one slug; the slug of the last is that slug suffixed
TeamNames == { <<"a">>, <<"A">>, <<"a", "-">>, <<"a", " ", "1">> }

QpIds == {1, 2}

\* the rows each strategy's source can serve
TableRows(strategy, names) ==
  IF strategy = "v2"
    THEN [name : names, qp : QpIds, teamCity : {<<>>}, place : {-1, 1}]
    ELSE [name : names, qp : {None}, teamCity : {<<>>, <<"S">>}, place : {-1, 1}]

\* the tables: up to MaxRows rows.  Rows after a row that throws are never
\* read, so only the last row of a table is let to throw.
Tables(strategy, names, maxRows) ==
  UNION { { t \in [1..n -> TableRows(strategy, names)] :
              \A i \in 1..(n - 1) : GameResultSchemaOk(t[i]) } : n \in 0..maxRows }

\* CsvStorage.getGamesWithoutResults: indexes of the unprocessed records
getGamesWithoutResults(file) == {i \in 1..Len(file) : ~file[i].processed}

\* CsvStorage.markGameAsProcessed: every record with that id
markGameAsProcessed(file, gameId) ==
  [i \in 1..Len(file) |-> IF file[i].id = gameId THEN [file[i] EXCEPT !.processed = TRUE]
                                                 ELSE file[i]]

\* CsvStorage.saveResults: append
saveResults(file, results) == file \o results

\* the day a game is played, as a number: the source dates its games in the
\* order it numbers them
GameDate(id) == id

\* the header rows the HTML strategy can be served, none for the API strategy
PageHeaders(strategy, headers) == IF strategy = "v2" THEN {<<>>} ELSE headers

\* the columns of the page's table, as far as scrapeResults got to know them
PageColumns(strategy, cells) ==
  IF strategy # "v2" /\ ClassifiedHeaders[cells].found
    THEN ClassifiedHeaders[cells].columns
    ELSE NoColumns

\* one iteration of processPendingResults' loop over a city's pending games,
\* for the game at index i and its city [id, strategy, since]: a game older
\* than the city's since date is passed over; a stream is marked processed,
\* which may fail (markThrew: that markGameAsProcessed threw);
\* otherwise the results are scraped and, when there are any, saved, and the
\* game is marked processed.  Either write may fail.
PendingGameIteration(i, city, names, maxRows, headers) ==
  LET game == gamesFile[i]
      strategy == createScraper(city.strategy)
  IN IF city.since # None /\ GameDate(game.id) < city.since
       THEN /\ fetch' = [NoFetch EXCEPT !.n = fetch.n + 1, !.game = game.id,
                                        !.strategy = strategy, !.skipped = "old"]
            /\ header' = <<>>
            /\ columns' = NoColumns
            /\ UNCHANGED <<gamesFile, teamsFile, teamCache, nextTeamId, resultsFile>>
     ELSE IF game.stream
       THEN \E marked \in BOOLEAN :
            /\ gamesFile' = IF marked THEN markGameAsProcessed(gamesFile, game.id)
                                      ELSE gamesFile
            /\ fetch' = [NoFetch EXCEPT !.n = fetch.n + 1, !.game = game.id,
                                        !.strategy = strategy, !.skipped = "stream",
                                        !.markThrew = ~marked]
            /\ header' = <<>>
            /\ columns' = NoColumns
            /\ UNCHANGED <<teamsFile, teamCache, nextTeamId, resultsFile>>
     ELSE \E cells \in PageHeaders(strategy, headers) :
            \E table \in Tables(strategy, names, maxRows) :
              \E r \in {scrapeResults(strategy, cells, table, game.id, game.city,
                                      teamsFile, teamCache, nextTeamId)} :
                \E w \in IF Len(r.results) = 0 THEN {<<TRUE, TRUE>>}
                         ELSE {<<TRUE, TRUE>>, <<TRUE, FALSE>>, <<FALSE, FALSE>>} :
                  /\ teamsFile' = r.file
                  /\ teamCache' = r.cache
                  /\ nextTeamId' = r.next
                  /\ resultsFile' = IF Len(r.results) > 0 /\ w[1]
                                      THEN saveResults(resultsFile, r.results)
                                      ELSE resultsFile
                  /\ gamesFile' = IF Len(r.results) > 0 /\ w[1] /\ w[2]
                                    THEN markGameAsProcessed(gamesFile, game.id)
                                    ELSE gamesFile
                  /\ header' = cells
                  /\ columns' = PageColumns(strategy, cells)
                  /\ fetch' = [n |-> fetch.n + 1, game |-> game.id, strategy |-> strategy,
                               skipped |-> "", threw |-> r.threw,
                               rows |-> r.rows,
                               results |-> r.results, rejected |-> r.rejected,
                               markThrew |-> FALSE]

\* the city object of city c as cities.csv gives it
CityOf(c) == [id |-> c, strategy |-> CityStrategyTag[c], since |-> None]

\* an iteration of that loop for a pending game, whatever the process is at;
\* the page has the usual header
ProcessPendingGame(i, names, maxRows, maxFetches) ==
  /\ fetch.n < maxFetches
  /\ i \in getGamesWithoutResults(gamesFile)
  /\ PendingGameIteration(i, CityOf(gamesFile[i].city), names, maxRows, {ExampleHeader})
  /\ UNCHANGED <<discVars, proc, extraction, scrapers, git, gamesCsv, scrape, sched>>

\* the process ends and a new one starts: the in-memory index is gone
Restart ==
  /\ teamCache # NoCache
  /\ teamCache' = NoCache
  /\ UNCHANGED <<discVars, gamesFile, teamsFile, nextTeamId, resultsFile, fetch, headerVars, proc, extraction, scrapers, git, gamesCsv, scrape, sched>>

\* a store as discovery leaves it: one pending game in each city
InitResults ==
  /\ listing = [c \in Cities |->
                  <<[id |-> c, title |-> <<"a">>, valid |-> TRUE, stream |-> FALSE, throws |-> FALSE]>>]
  /\ nextId = 3
  /\ lastGameId = [c \in Cities |-> c]
  /\ gamesFile = [c \in 1..2 |-> [id |-> c, city |-> c, series |-> 1, stream |-> FALSE,
                                  processed |-> FALSE]]
  /\ seriesFile = <<[id |-> 1, name |-> <<"a">>]>>
  /\ disc = NoDisc
  /\ InitTeams
  /\ InitHeader
  /\ proc = NoProc

NextResults ==
  \/ \E i \in 1..Len(gamesFile) : ProcessPendingGame(i, TeamNames, MaxRows, MaxFetches)
  \/ Restart

SpecResults == InitResults /\ [][NextResults]_vars

\* longer runs of one-row tables: teams are created one after another
NextTeams ==
  \/ \E i \in 1..Len(gamesFile) : ProcessPendingGame(i, TeamNames, TeamRows, TeamFetches)
  \/ Restart

SpecTeams == InitResults /\ [][NextTeams]_vars

(***************************************************************************)
(* Header rows one cell at a time.                                        *)
(***************************************************************************)
\* header cells as the source types them: empty, blank, the cells of a usual
\* header, a placement cell, and a cell naming both the team and the placement
HeaderCells ==
  { <<>>,
    <<" ">>,
    <<"CY-KA", "cy-o", "cy-em", "cy-a", "cy-en", "cy-de", "cy-a">>,
    <<"CY-ER", "cy-a", "cy-u", "cy-en", "cy-de", " ", "1", "-", "2", "0">>,
    <<"CY-ER", "cy-a", "cy-u", "cy-en", "cy-de", " ", "2", "1", "-", "4", "0">>,
    <<"CY-I", "cy-te", "cy-o", "cy-ghe", "cy-o">>,
    <<"CY-EM", "cy-ie", "cy-es", "cy-te", "cy-o">>,
    <<"T", "e", "a", "m", " ", "p", "l", "a", "c", "e">>,
    <<"c", "i", "t", "y", " ", "r", "a", "n", "k">> }

\* the page has one more header cell
AddHeaderCell ==
  /\ Len(header) < MaxCols
  /\ \E cell \in HeaderCells : header' = Append(header, cell)
  /\ columns' = NoColumns
  /\ UNCHANGED <<discVars, gamesFile, teamVars, proc, extraction, scrapers, git, gamesCsv, scrape, sched>>

\* const columns = findColumnIndexes($, headerRow)
ClassifyHeader ==
  /\ columns = NoColumns
  /\ columns' = findColumnIndexes(header)
  /\ UNCHANGED <<header, discVars, gamesFile, teamVars, proc, extraction, scrapers, git, gamesCsv, scrape, sched>>

NextHeader == AddHeaderCell \/ ClassifyHeader

(***************************************************************************)
(* One row of a results table (HTML strategy) or response (API strategy).  *)
(*                                                                         *)
(* Scores are counted in 1/256 of a point: the score texts of the model    *)
(* denote such numbers, on which the arithmetic of doubles is exact.       *)
(***************************************************************************)
\* rounds of the longest row
MaxRounds == 3

ScoreUnits == 256

RECURSIVE Pow10(_)
Pow10(n) == IF n = 0 THEN 1 ELSE 10 * Pow10(n - 1)

IsDigit(ch) == \E d \in 1..10 : Digits[d] = ch

DigitValue(ch) == (CHOOSE d \in 1..10 : Digits[d] = ch) - 1

\* the longest prefix of s made of digits
RECURSIVE TakeDigits(_)
TakeDigits(s) ==
  IF s # <<>> /\ IsDigit(Head(s)) THEN <<Head(s)>> \o TakeDigits(Tail(s)) ELSE <<>>

\* the number a string of digits denotes
RECURSIVE IntValue(_)
IntValue(ds) ==
  IF ds = <<>> THEN 0 ELSE 10 * IntValue(SubSeq(ds, 1, Len(ds) - 1)) + DigitValue(ds[Len(ds)])

\* parseFloat of an unsigned decimal: leading whitespace is skipped, the
\* longest prefix digits[.digits] is read, NaN when it holds no digit
parseFloat(text) ==
  LET t == TrimLeft(text)
      ip == TakeDigits(t)
      rest == SubSeq(t, Len(ip) + 1, Len(t))
      fp == IF rest # <<>> /\ Head(rest) = "." THEN TakeDigits(Tail(rest)) ELSE <<>>
  IN [nan |-> ip = <<>> /\ fp = <<>>,
      v |-> IntValue(ip) * ScoreUnits + (IntValue(fp) * ScoreUnits) \div Pow10(Len(fp))]

\* text.replace(',', '.'): the first comma
RECURSIVE ReplaceComma(_)
ReplaceComma(s) ==
  IF s = <<>> THEN <<>>
  ELSE IF Head(s) = "," THEN <<".">> \o Tail(s)
  ELSE <<Head(s)>> \o ReplaceComma(Tail(s))

\* parseFloat(...) || 0
OrZero(parsed) == IF parsed.nan THEN 0 ELSE parsed.v

\* the score of a cell: the HTML strategy reads a decimal comma, the API
\* strategy does not
Score(strategy, text) ==
  IF strategy = "v2" THEN OrZero(parseFloat(text))
  ELSE OrZero(parseFloat(ReplaceComma(text)))

\* rounds.reduce((a, b) => a + b, 0)
RECURSIVE SumOf(_)
SumOf(rounds) == IF rounds = <<>> THEN 0 ELSE Head(rounds) + SumOf(Tail(rounds))

Abs(x) == IF x < 0 THEN -x ELSE x

\* any difference counts
HasErrors_AnyDifference(rounds, sum) == SumOf(rounds) # sum

\* Math.abs(calculatedSum - displayedSum) > 0.01
HasErrors(rounds, sum) == 100 * Abs(SumOf(rounds) - sum) > ScoreUnits

\* the badge the rank mappings know, and the id of its rank
KnownBadge == "known"

\* rankMappings.find(...)?._id for the row's badge ("": the row has none);
\* the HTML strategy looks only when the table has a rank column
RankId(strategy, rankColumn, badge) ==
  IF strategy # "v2" /\ ~rankColumn THEN None
  ELSE IF badge = KnownBadge THEN 1
  ELSE None

\* the result built from a row, and the team created for it when none is found
ExtractResult(row) ==
  LET rounds == [i \in 1..Len(row.rounds) |-> Score(row.strategy, row.rounds[i])]
      sum == Score(row.strategy, row.total)
      rank_id == RankId(row.strategy, row.rankColumn, row.badge)
  IN [row EXCEPT !.done = TRUE,
                 !.result = [rounds |-> rounds, sum |-> sum,
                             has_errors |-> HasErrors(rounds, sum), rank_id |-> rank_id],
                 !.team = [inconsistent_rank |-> rank_id # None]]

\* score cells as the source types them
RoundTexts ==
  { <<"1", "0">>, <<"1", "5">>, <<"2", "0">>, <<"x">>, <<"0", ",", "5">>, <<"0", ".", "0", "0", "7", "8", "1", "2", "5">> }

TotalTexts ==
  { <<"4", "5">>, <<"4", "5", ".", "5">>, <<"4", "5", ",", "5">>, <<>>, <<"0", ".", "5">>, <<"0", ".", "0", "1", "1", "7", "1", "8", "7", "5">>, <<"1", "0">> }

Badges == {"", KnownBadge, "unknown"}

\* the rows a page or a response can hold
Rows ==
  UNION { [strategy : {"v1", "v2"}, rounds : [1..n -> RoundTexts], total : TotalTexts,
           hasErrors : BOOLEAN, rankColumn : BOOLEAN, badge : Badges, done : {FALSE},
           result : {NoRow.result}, team : {NoRow.team}] : n \in 0..MaxRounds }

InitRow ==
  /\ listing = [c \in Cities |-> <<>>]
  /\ nextId = 1
  /\ lastGameId = [c \in Cities |-> None]
  /\ gamesFile = <<>>
  /\ seriesFile = <<>>
  /\ disc = NoDisc
  /\ InitTeams
  /\ header = <<>>
  /\ columns = NoColumns
  /\ proc = NoProc
  /\ extraction \in Rows
  /\ scrapers = NoScrapers
  /\ InitGit

\* the body of scrapeResults' loop over the rows, as far as it builds the
\* result and the new team
ExtractRow ==
  /\ ~extraction.done
  /\ extraction' = ExtractResult(extraction)
  /\ UNCHANGED <<discVars, gamesFile, teamVars, headerVars, proc, scrapers, git, gamesCsv, scrape, sched>>

NextRow == ExtractRow

SpecRow == InitRow /\ [][NextRow]_vars

(***************************************************************************)
(* createScraper over strategy tags.                                       *)
(***************************************************************************)
\* tags a city's configuration may hold: none, the empty string, the
\* registered ones, one that names nothing, and names of properties every
\* object has
FactoryTags == {Undefined, "", "v1", "v2", "v3", "constructor", "toString", "__proto__"}

InitFactory ==
  /\ listing = [c \in Cities |-> <<>>]
  /\ nextId = 1
  /\ lastGameId = [c \in Cities |-> None]
  /\ gamesFile = <<>>
  /\ seriesFile = <<>>
  /\ disc = NoDisc
  /\ InitTeams
  /\ header = <<>>
  /\ columns = NoColumns
  /\ proc = NoProc
  /\ extraction = NoRow
  /\ \E tags \in [Cities -> FactoryTags] : scrapers = [NoScrapers EXCEPT !.tag = tags]
  /\ InitGit

\* createScraper(city, storage, rankMappings)
CreateScraper(c) ==
  /\ scrapers.made[c] = ""
  /\ scrapers' = [scrapers EXCEPT !.made[c] = createScraper(scrapers.tag[c])]
  /\ UNCHANGED <<discVars, gamesFile, teamVars, headerVars, proc, extraction, git, gamesCsv, scrape, sched>>

NextFactory == \E c \in Cities : CreateScraper(c)

SpecFactory == InitFactory /\ [][NextFactory]_vars

(***************************************************************************)
(* games.csv as text: saveGames writes lines of fields, the reads parse     *)
(* them.                                                                   *)
(***************************************************************************)
\* lines saveGames appends
MaxCsvRows == 2

\* the keys of the game object a scrapeGames builds, in the order of its
\* object literal: the API strategy has package_number, the other has not
GameKeys(strategy) ==
  IF strategy = "v2"
    THEN <<"_id", "city_id", "series_id", "number", "package_number", "date", "price",
           "location", "address", "is_stream">>
    ELSE <<"_id", "city_id", "series_id", "number", "date", "price", "location",
           "address", "is_stream">>

\* the game objects: the id is a string, the date the milliseconds of a
\* minute (parse of a dd.MM.yy HH:mm text, fromZonedTime)
GameObjects ==
  [keys : {GameKeys("v1"), GameKeys("v2")}, _id : {"1", "2", "3"}, city_id : Cities,
   date : {0, 60000}, is_stream : {FALSE}]

\* String(date): the date to the second
DateString(date) == "D" \o ToString(date \div 1000)

\* new Date(text): the date that text is of, -1 for Invalid Date
NewDate(text) ==
  IF \E sec \in 0..60 : DateString(sec * 1000) = text
    THEN 1000 * (CHOOSE sec \in 0..60 : DateString(sec * 1000) = text)
    ELSE -1

\* parseInt(text), -1 for NaN
parseInt(text) ==
  IF \E n \in 0..9 : ToString(n) = text
    THEN CHOOSE n \in 0..9 : ToString(n) = text
    ELSE -1

\* csv-writer's field of a record: String(value), empty for null and undefined
CsvField(game, key) ==
  CASE key = "_id" -> game._id
    [] key = "city_id" -> ToString(game.city_id)
    [] key = "date" -> DateString(game.date)
    [] key = "is_stream" -> IF game.is_stream THEN "true" ELSE "false"
    [] key = "processed" -> "false"
    [] key = "address" -> ""
    [] OTHER -> "x"

\* CsvStorage.saveGames: the header is the keys of the first game and
\* processed; it is written when the file does not exist; the games are
\* appended as lines of the fields of that header.  saved keeps the games.
saveGamesCsv(csv, games) ==
  IF Len(games) = 0 THEN csv
  ELSE LET fileExists == csv.header # <<>>
           names == Append(games[1].keys, "processed")
       IN [header |-> IF fileExists THEN csv.header ELSE names,
           rows |-> csv.rows \o [i \in 1..Len(games) |->
                                   [k \in 1..Len(names) |-> CsvField(games[i], names[k])]],
           saved |-> csv.saved \o games]

\* the column of a name in the header line, 0 when there is none
ColumnOf(names, key) ==
  IF \E k \in 1..Len(names) : names[k] = key
    THEN CHOOSE k \in 1..Len(names) : names[k] = key
    ELSE 0

\* the converted record of a line
GameRecord(names, row) ==
  [_id |-> row[ColumnOf(names, "_id")],
   city_id |-> parseInt(row[ColumnOf(names, "city_id")]),
   date |-> NewDate(row[ColumnOf(names, "date")]),
   processed |-> row[ColumnOf(names, "processed")] = "true"]

\* CsvStorage.getGamesWithoutResults: csv-parse with columns: true throws on
\* a line whose number of fields is not the header's; the records whose
\* processed is not "true", converted
getGamesWithoutResultsCsv(csv) ==
  IF \E i \in 1..Len(csv.rows) : Len(csv.rows[i]) # Len(csv.header)
    THEN [threw |-> TRUE, records |-> <<>>]
    ELSE [threw |-> FALSE,
          records |-> [i \in 1..Len(csv.rows) |-> GameRecord(csv.header, csv.rows[i])]]

InitGamesCsv ==
  /\ listing = [c \in Cities |-> <<>>]
  /\ nextId = 1
  /\ lastGameId = [c \in Cities |-> None]
  /\ gamesFile = <<>>
  /\ seriesFile = <<>>
  /\ disc = NoDisc
  /\ InitTeams
  /\ InitHeader
  /\ proc = NoProc

\* storage.saveGames(cityGames) with one game
SaveGamesCsv ==
  /\ Len(gamesCsv.rows) < MaxCsvRows
  /\ \E game \in GameObjects : gamesCsv' = saveGamesCsv(gamesCsv, <<game>>)
  /\ UNCHANGED <<discVars, gamesFile, teamVars, headerVars, proc, extraction, scrapers, git, scrape, sched>>

NextGamesCsv == SaveGamesCsv

SpecGamesCsv == InitGamesCsv /\ [][NextGamesCsv]_vars

(***************************************************************************)
(* One call of scrapeGames against any endpoint.                           *)
(***************************************************************************)

\* rows of the listing a call meets
MaxScrapeRows == 3

\* the ids of the rows; an id can repeat in a listing
ScrapeIds == {1, 2, 3}

\* a row is fine, fails GameSchema.parse (an invalid timestamp, a malformed
\* field), or lacks a field the game literal dereferences (lines 72-82)
ScrapeRowSet ==
  { [id |-> i, title |-> <<"a">>, valid |-> k[1], stream |-> FALSE, throws |-> k[2]] :
      i \in ScrapeIds, k \in { <<TRUE, FALSE>>, <<FALSE, FALSE>>, <<FALSE, TRUE>> } }

RECURSIVE SeqsUpTo(_, _)
SeqsUpTo(S, n) ==
  IF n = 0 THEN { <<>> }
  ELSE LET shorter == SeqsUpTo(S, n - 1)
       IN shorter \cup { Append(q, x) : q \in { t \in shorter : Len(t) = n - 1 }, x \in S }

\* the endpoints: every request answered with JSON, or one page whose first
\* request is answered otherwise
Endpoints(pages) ==
  { [first |-> <<>>, second |-> <<>>, counts |-> n] : n \in {"page", "total"} }
  \cup { [first |-> [p \in 1..at |-> IF p = at THEN f ELSE "json"],
          second |-> [p \in 1..at |-> IF p = at THEN g ELSE "json"],
          counts |-> n] :
           at \in 1..pages, f \in {"nonjson", "error"}, g \in {"json", "nonjson", "error"},
           n \in {"page", "total"} }

\* scrapeGames([city 1]) with an empty series file
ScrapeCall ==
  /\ ~scrape.done
  /\ \E src \in SeqsUpTo(ScrapeRowSet, MaxScrapeRows), wm \in {None} \cup ScrapeIds :
       \E net \in Endpoints(Len(src) \div PageSize + 1) :
         scrape' = [src |-> src, wm |-> wm, net |-> net, done |-> TRUE,
                    out |-> scrapeGamesNet(src, 1, wm, <<>>, net)]
  /\ UNCHANGED <<discVars, gamesFile, teamVars, headerVars, proc, extraction, scrapers, git,
                 gamesCsv, sched>>

NextScrape == ScrapeCall

SpecScrape == InitGamesCsv /\ [][NextScrape]_vars

(***************************************************************************)
(* The process: runMain, main and its two loops, the signal handlers.      *)
(*                                                                         *)
(* main runs from one await to the next; a signal handler runs in between. *)
(* process.exit ends everything: no action is enabled after it.            *)
(***************************************************************************)
\* termination signals a process receives
MaxSignals == 2

\* runs of main in one process (the first, then the scheduled ones)
MaxMainRuns == 2

\* the strategy tags the cities' configurations may hold: unset, empty or not
\* registered for city 1, registered or not for city 2
RunTags == { <<Undefined, "v2">>, <<Undefined, "v3">>, <<"v3", "v2">>, <<"v3", "v3">>,
             <<"", "v2">> }

\* the values config.cityIds may have
RunCityIds == { {1}, {1, 2} }

\* the since date of each city's configuration: day 2 for city 1, none for
\* city 2
RunSince == << 2, None >>

RunNames == { <<"a">> }

RunRows == 1

\* the ids of a set, ascending
RECURSIVE SetToSeq(_)
SetToSeq(S) ==
  IF S = {} THEN <<>>
  ELSE LET m == CHOOSE x \in S : \A y \in S : x <= y
       IN <<m>> \o SetToSeq(S \ {m})

\* CsvStorage.getCitiesByIds: the cities of cities.csv with one of the ids
getCitiesByIds(ids) == SetToSeq(Cities \cap ids)

\* main's check of the cities' strategies: the active cities whose tag is set
\* and not registered
NotImplemented(params, cityIds) ==
  {c \in cityIds : /\ params[c].strategy \notin {Undefined, ""}
                   /\ params[c].strategy \notin availableStrategies}

\* the storage type and whether a schedule is set, for the runs with every
\* configuration of the cities
RunConfigs == { <<"csv", FALSE>>, <<"csv", TRUE>>, <<"github", FALSE>> }

\* the process as configured
Configured(storage, cron, cityIds, tags) ==
  [NoProc EXCEPT !.storage = storage, !.cron = cron, !.cityIds = cityIds,
                 !.params = [c \in Cities |-> [strategy |-> tags[c], since |-> RunSince[c]]]]

\* a store with two cities, a pending game in each, and a game of city 1 the
\* source has published since
RunStore ==
  /\ listing = [c \in Cities |->
                  IF c = 1
                    THEN <<[id |-> 3, title |-> <<"a">>, valid |-> TRUE, stream |-> FALSE, throws |-> FALSE],
                           [id |-> 1, title |-> <<"a">>, valid |-> TRUE, stream |-> FALSE, throws |-> FALSE]>>
                    ELSE <<[id |-> 2, title |-> <<"a">>, valid |-> TRUE, stream |-> TRUE, throws |-> FALSE]>>]
  /\ nextId = 4
  /\ lastGameId = [c \in Cities |-> c]
  /\ gamesFile = [c \in 1..2 |-> [id |-> c, city |-> c, series |-> 1, stream |-> c = 2,
                                  processed |-> FALSE]]
  /\ seriesFile = <<[id |-> 1, name |-> <<"a">>]>>
  /\ disc = NoDisc
  /\ InitTeams
  /\ InitHeader

\* that store and a process in one of the configurations
InitRun ==
  /\ RunStore
  /\ \E config \in RunConfigs, cityIds \in RunCityIds, tags \in RunTags :
       proc = Configured(config[1], config[2], cityIds, tags)

\* that store and a scheduled process with the remote store, for city 1
InitSync ==
  /\ RunStore
  /\ proc = Configured("github", TRUE, {1}, << Undefined, "v2" >>)

\* the git commands of syncChanges that may fail; "" when none does
SyncFailures == {"", "status", "add", "commit", "pull", "push"}

\* GitHubStorage.syncChanges on the working tree wt of repository g, when the
\* command failing is the one named (reset: the reset --hard of the catch
\* block works).  step is what the call came to: "status" (git status threw),
\* "none" (no changes to sync), "unstaged" (no staged changes to commit),
\* "commit" and "push" (that command threw, the catch block ran), "pushed".
\* A pull that fails is caught and the push follows; origin has no other
\* writer, so a pull that works changes nothing.
syncChanges(g, wt, failing, reset) ==
  IF failing = "status"
    THEN [git |-> g, tree |-> wt, threw |-> TRUE, step |-> "status"]
  ELSE
    LET hasGitChanges == wt # g.head
        hasTrackedChanges == g.modifiedFiles
    IN IF ~hasGitChanges /\ ~hasTrackedChanges
         THEN [git |-> g, tree |-> wt, threw |-> FALSE, step |-> "none"]
       ELSE IF ~hasGitChanges \/ failing = "add"
         THEN [git |-> [g EXCEPT !.modifiedFiles = FALSE], tree |-> wt, threw |-> FALSE,
               step |-> "unstaged"]
       ELSE IF failing = "commit"
         THEN [git |-> g, tree |-> IF reset THEN g.head ELSE wt, threw |-> TRUE,
               step |-> "commit"]
       ELSE IF failing = "push"
         THEN [git |-> [g EXCEPT !.head = wt], tree |-> wt, threw |-> TRUE, step |-> "push"]
       ELSE [git |-> [g EXCEPT !.head = wt, !.origin = wt, !.modifiedFiles = FALSE],
             tree |-> wt, threw |-> FALSE, step |-> "pushed"]

\* the working tree after a syncChanges
WorkingTree(tree) ==
  /\ gamesFile' = tree.games
  /\ seriesFile' = tree.series
  /\ teamsFile' = tree.teams
  /\ resultsFile' = tree.results
  /\ lastGameId' = tree.cities

\* the save methods of GitHubStorage mark their file as modified
MarkModified(saved) ==
  git' = [git EXCEPT !.modifiedFiles = @ \/ (proc.storage = "github" /\ saved)]

\* process.exit(code)
Exit(p, code, by) == [p EXCEPT !.exited = TRUE, !.code = code, !.by = by]

\* runMain calls main: createStorage on the first run, getCities and the
\* check of the strategies, then processNewGames up to its loop.  Each of the
\* three reads may throw.
MainStart ==
  /\ ~proc.exited
  /\ proc.pc = "start"
  /\ \E thrown \in {"", "createStorage", "getCities", "getCitiesByIds"} :
       /\ thrown = "createStorage" => ~proc.hasStorage
       /\ proc' =
            IF thrown \in {"createStorage", "getCities"}
              THEN [proc EXCEPT !.pc = "return", !.ok = FALSE, !.runs = @ + 1, !.sync = "",
                                !.hasStorage = thrown # "createStorage"]
              ELSE LET skipped == NotImplemented(proc.params, proc.cityIds)
                       cityIds == proc.cityIds \ skipped
                   IN [proc EXCEPT !.pc = "newGames", !.runs = @ + 1, !.hasStorage = TRUE,
                                   !.cityIds = cityIds,
                                   !.excluded = @ \cup skipped,
                                   !.cities = IF thrown = "getCitiesByIds" THEN <<>>
                                              ELSE getCitiesByIds(cityIds),
                                   !.city = None, !.games = <<>>, !.pending = {},
                                   !.found = FALSE, !.anyNew = FALSE, !.ok = FALSE,
                                   !.sync = ""]
  /\ UNCHANGED storeVars

\* one iteration of processNewGames' loop over the cities
NewGamesCity ==
  /\ ~proc.exited
  /\ proc.pc = "newGames"
  /\ proc.cities # <<>>
  /\ NewGamesIteration(Head(proc.cities))
  /\ proc' = [proc EXCEPT !.cities = Tail(@), !.found = @ \/ disc'.saveCalled,
                          !.anyNew = @ \/ disc'.saveCalled,
                          !.late = IF proc.isShuttingDown THEN Min(@ + 1, 2) ELSE @]
  /\ MarkModified(\/ Len(gamesFile') > Len(gamesFile)
                  \/ seriesFile' # seriesFile
                  \/ lastGameId' # lastGameId)
  /\ UNCHANGED <<listing, nextId, teamVars, headerVars, extraction, scrapers, gamesCsv, scrape, sched>>

\* processNewGames returns; processPendingResults reads the pending games and
\* the cities (a read may throw) and returns at once when nothing is pending
PendingStart ==
  /\ ~proc.exited
  /\ proc.pc = "newGames"
  /\ proc.cities = <<>>
  /\ \E thrown \in BOOLEAN :
       proc' = IF thrown \/ getGamesWithoutResults(gamesFile) = {}
                 THEN [proc EXCEPT !.pc = "sync"]
                 ELSE [proc EXCEPT !.pc = "pending",
                                   !.pending = getGamesWithoutResults(gamesFile),
                                   !.cities = getCitiesByIds(proc.cityIds)]
  /\ UNCHANGED storeVars

\* an iteration of processPendingResults' loop over the cities starts: the
\* city's pending games, its scraper
PendingCity ==
  /\ ~proc.exited
  /\ proc.pc = "pending"
  /\ proc.games = <<>>
  /\ proc.cities # <<>>
  /\ proc' = [proc EXCEPT !.city = Head(proc.cities), !.cities = Tail(@),
                          !.games = SetToSeq({i \in proc.pending :
                                                gamesFile[i].city = Head(proc.cities)})]
  /\ UNCHANGED storeVars

\* one iteration of the loop over the city's pending games.  The
\* markGameAsProcessed of a stream game is outside the try of the iteration:
\* when it throws, the catch of the function ends both loops and returns [].
PendingGame ==
  /\ ~proc.exited
  /\ proc.pc = "pending"
  /\ proc.games # <<>>
  /\ PendingGameIteration(Head(proc.games),
                          [id |-> proc.city, strategy |-> proc.params[proc.city].strategy,
                           since |-> proc.params[proc.city].since],
                          RunNames, RunRows, ResultHeaders)
  /\ proc' = IF fetch'.markThrew
               THEN [proc EXCEPT !.games = <<>>, !.cities = <<>>, !.anyNew = proc.found,
                                 !.late = IF proc.isShuttingDown THEN Min(@ + 1, 2) ELSE @]
               ELSE [proc EXCEPT !.games = Tail(@),
                                 !.anyNew = @ \/ (fetch'.skipped = "" /\ gamesFile' # gamesFile),
                                 !.late = IF proc.isShuttingDown THEN Min(@ + 1, 2) ELSE @]
  /\ MarkModified(teamsFile' # teamsFile \/ resultsFile' # resultsFile)
  /\ UNCHANGED <<discVars, extraction, scrapers, gamesCsv, scrape, sched>>

\* processPendingResults returns
PendingEnd ==
  /\ ~proc.exited
  /\ proc.pc = "pending"
  /\ proc.games = <<>>
  /\ proc.cities = <<>>
  /\ proc' = [proc EXCEPT !.pc = "sync", !.city = None]
  /\ UNCHANGED storeVars

\* the end of main with a syncChanges whose error is not caught
MainEnd_SyncFatal ==
  /\ ~proc.exited
  /\ proc.pc = "sync"
  /\ IF proc.storage = "github" /\ proc.anyNew
       THEN \E failing \in SyncFailures, reset \in BOOLEAN :
              /\ reset \/ failing = "commit"
              /\ \E r \in {syncChanges(git, Snapshot, failing, reset)} :
                   /\ git' = r.git
                   /\ WorkingTree(r.tree)
                   /\ proc' = [proc EXCEPT !.pc = "return", !.ok = ~r.threw, !.sync = r.step,
                                           !.failedRun = IF r.threw THEN proc.runs ELSE @]
       ELSE /\ proc' = [proc EXCEPT !.pc = "return", !.ok = TRUE, !.sync = "skipped"]
            /\ UNCHANGED <<git, gamesFile, seriesFile, teamsFile, resultsFile, lastGameId>>
  /\ UNCHANGED <<listing, nextId, disc, teamCache, nextTeamId, fetch, headerVars,
                 extraction, scrapers, gamesCsv, scrape, sched>>

\* the end of main: with the remote store and anything new, syncChanges (an
\* error of which is caught); main returns true
MainEnd ==
  /\ ~proc.exited
  /\ proc.pc = "sync"
  /\ IF proc.storage = "github" /\ proc.anyNew
       THEN \E failing \in SyncFailures, reset \in BOOLEAN :
              /\ reset \/ failing = "commit"
              /\ \E r \in {syncChanges(git, Snapshot, failing, reset)} :
                   /\ git' = r.git
                   /\ WorkingTree(r.tree)
                   /\ proc' = [proc EXCEPT !.pc = "return", !.ok = TRUE, !.sync = r.step,
                                           !.failedRun = IF r.threw THEN proc.runs ELSE @]
       ELSE /\ proc' = [proc EXCEPT !.pc = "return", !.ok = TRUE, !.sync = "skipped"]
            /\ UNCHANGED <<git, gamesFile, seriesFile, teamsFile, resultsFile, lastGameId>>
  /\ UNCHANGED <<listing, nextId, disc, teamCache, nextTeamId, fetch, headerVars,
                 extraction, scrapers, gamesCsv, scrape, sched>>

\* runMain exiting 0 whatever main returned
RunMainEnd_AlwaysZero ==
  /\ ~proc.exited
  /\ proc.pc = "return"
  /\ proc' = IF proc.ok /\ proc.cron THEN [proc EXCEPT !.pc = "idle"]
             ELSE Exit(proc, 0, "runMain")
  /\ UNCHANGED storeVars

\* runMain after main: exit 1 when main failed; otherwise schedule the next
\* run, or exit 0 when no schedule is set
RunMainEnd ==
  /\ ~proc.exited
  /\ proc.pc = "return"
  /\ proc' = IF ~proc.ok THEN Exit(proc, 1, "runMain")
             ELSE IF proc.cron THEN [proc EXCEPT !.pc = "idle"]
             ELSE Exit(proc, 0, "runMain")
  /\ UNCHANGED storeVars

\* the schedule fires: runMain again
ScheduledRun ==
  /\ ~proc.exited
  /\ proc.pc = "idle"
  /\ proc.runs < MaxMainRuns
  /\ proc' = [proc EXCEPT !.pc = "start"]
  /\ UNCHANGED storeVars

\* SIGINT or SIGTERM: the handler calls cleanup.  cleanup returns at once when
\* the flag is set, and the handler exits; otherwise it sets the flag and,
\* with the remote store, awaits syncChanges (which throws at once, and is
\* caught, when there is no store yet); then, or without the remote store,
\* it exits.  A handler runs while main awaits: not between the return of main
\* and runMain's exit, nor at the end of main when it awaits no sync.
Signal ==
  /\ ~proc.exited
  /\ proc.signals < MaxSignals
  /\ proc.pc # "return"
  /\ proc.pc = "sync" => (proc.storage = "github" /\ proc.anyNew)
  /\ proc' =
       LET p == [proc EXCEPT !.signals = @ + 1]
       IN IF proc.isShuttingDown THEN Exit(p, 0, "handler")
          ELSE IF proc.storage = "github" /\ proc.hasStorage
            THEN [p EXCEPT !.isShuttingDown = TRUE, !.cleanup = "syncing", !.syncs = @ + 1]
          ELSE IF proc.storage = "github"
            THEN Exit([p EXCEPT !.isShuttingDown = TRUE, !.cleanup = "synced",
                                !.syncs = @ + 1], 0, "cleanup")
          ELSE Exit([p EXCEPT !.isShuttingDown = TRUE], 0, "cleanup")
  /\ UNCHANGED storeVars

\* cleanup's syncChanges has finished or failed (the error is caught):
\* cleanup exits
CleanupEnd ==
  /\ ~proc.exited
  /\ proc.cleanup = "syncing"
  /\ \E failing \in SyncFailures, reset \in BOOLEAN :
       /\ reset \/ failing = "commit"
       /\ \E r \in {syncChanges(git, Snapshot, failing, reset)} :
            /\ git' = r.git
            /\ WorkingTree(r.tree)
            /\ proc' = Exit([proc EXCEPT !.cleanup = "synced",
                                         !.failedRun = IF r.threw THEN proc.runs ELSE @],
                            0, "cleanup")
  /\ UNCHANGED <<listing, nextId, disc, teamCache, nextTeamId, fetch, headerVars,
                 extraction, scrapers, gamesCsv, scrape, sched>>

NextRun ==
  \/ MainStart
  \/ NewGamesCity
  \/ PendingStart
  \/ PendingCity
  \/ PendingGame
  \/ PendingEnd
  \/ MainEnd
  \/ RunMainEnd
  \/ ScheduledRun
  \/ Signal
  \/ CleanupEnd

SpecRun == InitRun /\ [][NextRun]_vars

SpecSync == InitSync /\ [][NextRun]_vars

(***************************************************************************)
(* runMain and the schedule.                                               *)
(*                                                                         *)
(* runMain awaits main; a task of node-cron calls runMain each time the    *)
(* schedule fires, whatever its earlier calls are doing.                   *)
(***************************************************************************)
\* times the schedule fires
MaxTicks == 3

\* the phases in which a call awaits inside main
MainPhases == <<"newGames", "pending", "sync">>

InMain(call) == call \in {"newGames", "pending", "sync"}

\* runMain() when the program starts
RunMainCall ==
  /\ sched.calls = <<>>
  /\ \E cron \in BOOLEAN :
       sched' = [sched EXCEPT !.cron = cron, !.calls = <<"newGames">>]
  /\ UNCHANGED <<schedRest, proc>>

\* main of call i goes on from one phase to the next
MainStep(i) ==
  /\ ~sched.exited
  /\ i \in 1..Len(sched.calls)
  /\ sched.calls[i] \in {"newGames", "pending"}
  /\ sched' = [sched EXCEPT !.calls[i] = IF @ = "newGames" THEN "pending" ELSE "sync"]
  /\ UNCHANGED <<schedRest, proc>>

\* main of call i returns success: runMain exits the process when main
\* failed or no schedule is set, else it schedules the task if there is none
MainReturn(i, success) ==
  /\ ~sched.exited
  /\ i \in 1..Len(sched.calls)
  /\ InMain(sched.calls[i])
  /\ success => sched.calls[i] = "sync"
  /\ sched' = IF ~success THEN [sched EXCEPT !.calls[i] = "done", !.exited = TRUE, !.code = 1]
              ELSE IF ~sched.cron THEN [sched EXCEPT !.calls[i] = "done", !.exited = TRUE]
              ELSE [sched EXCEPT !.calls[i] = "done", !.tasks = 1]
  /\ UNCHANGED <<schedRest, proc>>

\* the schedule fires: the task calls runMain
CronTick ==
  /\ ~sched.exited
  /\ sched.tasks > 0
  /\ sched.ticks < MaxTicks
  /\ sched' = [sched EXCEPT !.ticks = @ + 1, !.calls = Append(@, "newGames")]
  /\ UNCHANGED <<schedRest, proc>>

NextSchedule ==
  \/ RunMainCall
  \/ \E i \in 1..(MaxTicks + 1) : MainStep(i)
  \/ \E i \in 1..(MaxTicks + 1), success \in BOOLEAN : MainReturn(i, success)
  \/ CronTick

SpecSchedule == InitGamesCsv /\ [][NextSchedule]_vars

Next ==
  \/ \E c \in {1} : Publish(c, {FALSE})
  \/ \E c \in {1} : ProcessNewGamesCity(c)

Spec == Init /\ [][Next]_vars

SpecHeader == Init /\ [][NextHeader]_vars

(***************************************************************************)
(* Claims about discovery.                                                 *)
(***************************************************************************)
HasId(src, id) == \E i \in 1..Len(src) : src[i].id = id

\* the rows of src that precede the first row whose id is wm (all of them
\* when no row has that id)
Before(src, wm) ==
  IF ~HasId(src, wm) THEN src
  ELSE LET k == CHOOSE i \in 1..Len(src) :
                  src[i].id = wm /\ \A j \in 1..(i - 1) : src[j].id # wm
       IN SubSeq(src, 1, k - 1)

AllValid(src) == \A i \in 1..Len(src) : src[i].valid

PersistedIds == {gamesFile[i].id : i \in 1..Len(gamesFile)}

\* C1: when every page is served, every row is valid and a row carries the
\* city's watermark, discovery returns exactly the rows that precede the
\* watermark row, oldest first (the reverse of the fetch order).
C1_WatermarkStop ==
  (disc.n > 0 /\ ~disc.failed /\ AllValid(disc.src) /\ disc.wmBefore # None
     /\ HasId(disc.src, disc.wmBefore))
  => disc.batch = Reverse(Ids(Before(disc.src, disc.wmBefore)))

\* a discovery that crossed a page boundary, returned two games and stopped
\* at the watermark row
C1_Witness ==
  /\ disc.n > 0 /\ ~disc.failed /\ AllValid(disc.src)
  /\ disc.wmBefore # None /\ HasId(disc.src, disc.wmBefore)
  /\ Len(disc.batch) >= 2
  /\ disc.batch[1] < disc.batch[2]

\* C2: discovery is idempotent: run again for a city whose batch was
\* persisted and whose watermark was updated, against an unchanged source,
\* it returns no game and calls neither saveGames nor updateCityLastGameId.
C2_Idempotent ==
  disc.rerun => (disc.batch = <<>> /\ ~disc.saveCalled /\ ~disc.updateCalled)

\* a second pass over an unchanged source after a persisted batch
C2_Witness == disc.rerun /\ disc.n = 2 /\ gamesFile # <<>> /\ disc.wmBefore # None

\* C3: after a pass that persisted the batch and advanced the watermark, every
\* (valid) game the source lists as newer than the previous watermark is
\* persisted, also when a page request failed during the pass.
C3_NothingLeftBehind ==
  (disc.saved /\ disc.wmSet)
  => \A i \in 1..Len(Before(disc.src, disc.wmBefore)) :
       disc.src[i].valid => disc.src[i].id \in PersistedIds

\* C4: no two persisted games have the same id.
C4_GameIdsUnique ==
  \A i, j \in 1..Len(gamesFile) : i # j => gamesFile[i].id # gamesFile[j].id

\* C31: a city's watermark is written only after the city's batch was saved,
\* and then it is the id of the most recent game of the batch; with an empty
\* batch or a failed saveGames it stays what it was; so a watermark always
\* names a persisted game.
C31_WatermarkAfterSave ==
  /\ disc.n > 0 =>
       /\ disc.updateCalled => disc.saved
       /\ disc.wmSet =>
            /\ lastGameId[disc.city] = disc.batch[Len(disc.batch)]
            /\ \A i \in 1..Len(disc.batch) : disc.batch[i] <= lastGameId[disc.city]
       /\ (disc.batch = <<>> \/ ~disc.saved) => lastGameId[disc.city] = disc.wmBefore
  /\ \A c \in Cities : lastGameId[c] # None => lastGameId[c] \in PersistedIds

\* a batch of two games was saved and the watermark, which named an older
\* game, now names the newer of the two
C31_Witness ==
  /\ disc.n > 0
  /\ disc.saved
  /\ disc.wmSet
  /\ Len(disc.batch) = 2
  /\ disc.wmBefore # None
  /\ lastGameId[disc.city] = disc.batch[2]
  /\ disc.batch[1] < disc.batch[2]
  /\ lastGameId[disc.city] \in PersistedIds

TeamRecord(id) == teamsFile[CHOOSE i \in 1..Len(teamsFile) : teamsFile[i].id = id]

C6_SlugsUnique ==
  /\ \A i, j \in 1..Len(teamsFile) :
       (i # j /\ teamsFile[i].city = teamsFile[j].city)
         => teamsFile[i].slug # teamsFile[j].slug
  /\ \A k \in 1..Len(fetch.rows) : ~fetch.rows[k].slugTaken

\* a team was created whose base slug and first suffixed slug were both taken
C6_Witness ==
  \E k \in 1..Len(fetch.rows) :
    /\ fetch.rows[k].created
    /\ fetch.rows[k].slug = <<"a", "-", "2">>
    /\ SlugStored(teamsFile, <<"a">>, fetch.rows[k].city)
    /\ SlugStored(teamsFile, <<"a", "-", "1">>, fetch.rows[k].city)

\* C7: no two stored teams have the same external id.
C7_ExternalIdsUnique ==
  \A i, j \in 1..Len(teamsFile) :
    (i # j /\ teamsFile[i].qp # None) => teamsFile[i].qp # teamsFile[j].qp

\* C8: a row of the API strategy creates a team only when both lookups miss;
\* when only the name lookup hits, the row is given that team and, the fetch
\* having returned, a lookup by the row's external id returns that team.
C8_ApiFindOrCreate ==
  fetch.strategy = "v2" =>
    \A k \in 1..Len(fetch.rows) :
      /\ fetch.rows[k].created => (fetch.rows[k].byQp = None /\ fetch.rows[k].byName = None)
      /\ (fetch.rows[k].byQp = None /\ fetch.rows[k].byName # None)
           => /\ fetch.rows[k].team = fetch.rows[k].byName
              /\ findTeamByQpId(loadTeamCache(teamsFile, teamCache), fetch.rows[k].qp)
                   = fetch.rows[k].team

\* C10: at most one result is persisted for each (game, team).
C10_OneResultPerGameTeam ==
  \A i, j \in 1..Len(resultsFile) :
    i # j => <<resultsFile[i].game, resultsFile[i].team>>
               # <<resultsFile[j].game, resultsFile[j].team>>

(***************************************************************************)
(* Claims about the column classifier.                                     *)
(***************************************************************************)
PlaceKeywordIn(cells) == \E i \in 1..Len(cells) : findColumn(PlaceVariants, cells[i])

Classified == columns # NoColumns /\ columns.error = ""

\* C11: a classified header whose first cell is empty and that holds no
\* place keyword has column 0 as its placement column; the example header
\* classifies as place 0, team 1, rounds 2 and 3 from left to right, total 4.
C11_PlaceInferred ==
  /\ (Classified /\ Len(header) > 0 /\ header[1] = <<>> /\ ~PlaceKeywordIn(header))
       => columns.place = 0
  /\ (columns # NoColumns /\ header = ExampleHeader)
       => /\ columns.error = ""
          /\ columns.place = 0
          /\ columns.team = 1
          /\ columns.rounds = <<2, 3>>
          /\ columns.total = 4

\* the example header has been classified
C11_Witness == header = ExampleHeader /\ Classified /\ columns.place = 0

\* the roles in the order the claim gives them, and their keyword lists
RoleOrder == <<"team", "round", "total", "place", "team_city", "rank">>

RoleVariants(role) ==
  CASE role = "team" -> TeamVariants
    [] role = "round" -> RoundVariants
    [] role = "total" -> TotalVariants
    [] role = "place" -> PlaceVariants
    [] role = "team_city" -> TeamCityVariants
    [] role = "rank" -> RankVariants

\* the positions in RoleOrder of the roles whose keywords the cell holds
MatchedRoles(cell) ==
  { r \in 1..Len(RoleOrder) : findColumn(RoleVariants(RoleOrder[r]), toLowerCase(Trim(cell))) }

\* for each cell a header can have: those positions
CellRoles == [cell \in HeaderCells |-> MatchedRoles(cell)]

\* the first of them, "" when the cell holds no keyword
FirstRole(cell) ==
  IF CellRoles[cell] = {} THEN ""
  ELSE RoleOrder[CHOOSE r \in CellRoles[cell] : \A q \in CellRoles[cell] : r <= q]

\* the roles the classification gave the column
AssignedRoles(col) ==
  {role \in {"team", "total", "place", "team_city", "rank"} : columns[role] = col}
    \cup (IF \E k \in 1..Len(columns.rounds) : columns.rounds[k] = col THEN {"round"} ELSE {})

\* the columns whose cell has that first role, from left to right
RECURSIVE ColumnsOfRole(_, _)
ColumnsOfRole(role, i) ==
  IF i > Len(header) THEN <<>>
  ELSE IF FirstRole(header[i]) = role THEN <<i - 1>> \o ColumnsOfRole(role, i + 1)
  ELSE ColumnsOfRole(role, i + 1)

\* C34: a header cell is given at most one role, the first in the order
\* team, round, total, place, team_city, rank whose keywords it holds (an
\* empty first cell can be given the placement by inference); the round
\* columns are collected from left to right; the classification fails
\* exactly when no cell was given the team, the round or the total role.
C34_OneRolePerCell ==
  columns # NoColumns =>
    /\ \A i \in 1..Len(header) :
         /\ Cardinality(AssignedRoles(i - 1)) <= 1
         /\ AssignedRoles(i - 1) \subseteq
              {FirstRole(header[i])} \cup (IF i = 1 /\ header[1] = <<>> THEN {"place"} ELSE {})
    /\ columns.rounds = ColumnsOfRole("round", 1)
    /\ \A role \in {"team", "total", "place", "team_city", "rank"} :
         LET cols == ColumnsOfRole(role, 1)
         IN cols # <<>> => columns[role] = cols[Len(cols)]
    /\ columns.error # "" <=>
         \/ ColumnsOfRole("team", 1) = <<>>
         \/ ColumnsOfRole("round", 1) = <<>>
         \/ ColumnsOfRole("total", 1) = <<>>

\* a header was classified whose cells hold the keywords of two roles each:
\* team and place (given team), team_city and rank (given team_city), with
\* two round columns in between
C34_Witness ==
  /\ Classified
  /\ Len(header) = 5
  /\ CellRoles[header[1]] = {1, 4}
  /\ CellRoles[header[4]] = {5, 6}
  /\ columns.team = 0
  /\ columns.rounds = <<1, 2>>
  /\ columns.team_city = 3
  /\ columns.rank = NoColumn
  /\ columns.place = NoColumn
  /\ columns.error = ""

(***************************************************************************)
(* Claims about the run.                                                   *)
(***************************************************************************)
HasColumn(variants, cells) == \E i \in 1..Len(cells) : findColumn(variants, cells[i])

\* the header rows without a team-name, a round or a total column
LackingHeaders ==
  {cells \in ResultHeaders : \/ ~HasColumn(TeamVariants, cells)
                             \/ ~HasColumn(RoundVariants, cells)
                             \/ ~HasColumn(TotalVariants, cells)}

\* C12: an iteration of the results loop whose page has a table without a
\* team-name, a round or a total column yields no result, saves nothing,
\* marks no game (a game without results before it is one after it), and the
\* loop goes on with the remaining pending games.
C12_TableErrorSkipsGame ==
  [][(/\ fetch'.n # fetch.n
      /\ fetch'.skipped = ""
      /\ fetch'.strategy = "v1"
      /\ header' \in LackingHeaders)
       => /\ fetch'.results = <<>>
          /\ resultsFile' = resultsFile
          /\ gamesFile' = gamesFile
          /\ getGamesWithoutResults(gamesFile) \subseteq getGamesWithoutResults(gamesFile')
          /\ ~proc'.exited
          /\ proc'.pc = "pending"
          /\ proc'.games = Tail(proc.games)]_vars

\* the table of game 3 lacked a column, the game is still without results,
\* and the run has a game left
C12_Witness ==
  /\ proc.pc = "pending"
  /\ header \in LackingHeaders
  /\ fetch.game = 3
  /\ fetch.results = <<>>
  /\ \E i \in getGamesWithoutResults(gamesFile) : gamesFile[i].id = 3
  /\ proc.games # <<>>

\* C15: an iteration of the results loop that ingests the game's results, or
\* passes over the game as a stream or as older than the city's since date,
\* leaves the game processed: it is no longer among the games without results.
C15_ProcessedWhenIngestedOrSkipped ==
  [][(/\ fetch'.n # fetch.n
      /\ \/ fetch'.skipped \in {"old", "stream"}
         \/ resultsFile' # resultsFile)
       => Head(proc.games) \notin getGamesWithoutResults(gamesFile')]_vars

\* C16: once the shutdown flag is set, at most the iteration in flight
\* completes: no second iteration of the discovery loop or of the results
\* loop runs; and the games and results persisted stay persisted.
C16_NoIterationAfterShutdown ==
  [][proc.isShuttingDown
       => /\ proc'.late <= 1
          /\ Len(gamesFile') >= Len(gamesFile)
          /\ \A i \in 1..Len(gamesFile) : gamesFile'[i].id = gamesFile[i].id
          /\ SubSeq(resultsFile', 1, Len(resultsFile)) = resultsFile]_vars

\* C17: with the remote store, once a termination signal has been received
\* cleanup has made one sync attempt, and the process has exited only if that
\* attempt has finished, however many signals were received.
C17_ExitAfterSync ==
  (proc.storage = "github" /\ proc.signals > 0)
    => /\ proc.syncs = 1
       /\ proc.exited => proc.cleanup = "synced"

\* main has completed without a top-level failure, in this run or in an
\* earlier one
MainCompleted == (proc.pc = "return" /\ proc.ok) \/ proc.pc = "idle" \/ proc.runs > 1

\* main has failed at top level
MainFailed == proc.pc = "return" /\ ~proc.ok

\* C18 as stated: the process has exited with code 0 only after a run in
\* which main completed without a top-level failure, with a non-zero code when
\* main failed at top level, and with a non-zero code in no other case.
C18_ExitZeroOnlyAfterRun ==
  proc.exited
    => /\ proc.code = 0 => MainCompleted
       /\ (MainFailed /\ proc.by = "runMain") => proc.code # 0
       /\ proc.code # 0 => MainFailed

\* C18, amended: absent a termination signal the process has exited with code
\* 0 only after a run in which main completed without a top-level failure;
\* when main failed at top level runMain has exited with a non-zero code; and
\* the code is non-zero in no other case (an exit by the signal handling has
\* code 0).
C18_ExitCodes ==
  proc.exited
    => /\ (proc.code = 0 /\ proc.signals = 0) => (proc.pc = "return" /\ proc.ok)
       /\ (MainFailed /\ proc.by = "runMain") => proc.code # 0
       /\ proc.code # 0 => (MainFailed /\ proc.by = "runMain")
       /\ proc.by \in {"cleanup", "handler"} => (proc.code = 0 /\ proc.signals > 0)

\* the process has exited with code 0 after a run in which the results of a
\* game could not be scraped
C18_Witness ==
  /\ proc.exited
  /\ proc.code = 0
  /\ proc.by = "runMain"
  /\ proc.signals = 0
  /\ fetch.threw

\* C35: a failure while one pending game is handled (its results cannot be
\* fetched or extracted, saving them or marking the game fails, marking a
\* skipped stream game fails) touches that game only: the loop goes on with
\* the remaining games and cities, and what the run has ingested so far is
\* still reported.
C35_FailureConfinedToGame ==
  [][(/\ fetch'.n # fetch.n
      /\ proc.pc = "pending"
      /\ \/ fetch'.threw
         \/ fetch'.markThrew
         \/ (fetch'.results # <<>>
               /\ Head(proc.games) \in getGamesWithoutResults(gamesFile')))
       => /\ proc'.games = Tail(proc.games)
          /\ proc'.cities = proc.cities
          /\ proc.anyNew => proc'.anyNew]_vars

\* the games with that id have a persisted result
HasResult(gameId) == \E j \in 1..Len(resultsFile) : resultsFile[j].game = gameId

\* every game marked processed is a stream or has a persisted result
ProcessedHaveResults ==
  \A i \in 1..Len(gamesFile) :
    gamesFile[i].processed => (gamesFile[i].stream \/ HasResult(gamesFile[i].id))

\* no record of games.csv goes from processed to unprocessed in this step
ProcessedStays ==
  \A i \in 1..Len(gamesFile) :
    gamesFile[i].processed => (i <= Len(gamesFile') /\ gamesFile'[i].processed)

\* C37: in every reachable state a game marked processed is a stream game
\* or has at least one persisted result, and a processed flag never returns
\* to unprocessed.
C37_ProcessedHasResult ==
  /\ []ProcessedHaveResults
  /\ [][ProcessedStays]_vars

\* C36: at most one run of the pipeline is in progress at any time: no
\* runMain call is inside main while another one is.
C36_OneRunAtATime ==
  \A i, j \in 1..Len(sched.calls) :
    (InMain(sched.calls[i]) /\ InMain(sched.calls[j])) => i = j

\* the cities of the active scrape set, as configured, whose strategy tag is
\* set and names no registered strategy
UnregisteredActive ==
  {c \in proc.cityIds \cup proc.excluded :
     proc.params[c].strategy \notin {Undefined} \cup availableStrategies}

\* the records of a city's games
GamesOf(file, c) == SelectSeq(file, LAMBDA g : g.city = c)

\* the results of a city's games
ResultsOf(results, file, c) ==
  SelectSeq(results, LAMBDA r : \E i \in 1..Len(file) : file[i].id = r.game /\ file[i].city = c)

\* C20: for a city of the active scrape set whose strategy tag is not
\* registered, no step of a run is an iteration of the discovery loop or of the
\* results loop for it, its watermark, its games and their results stay as
\* they are, and the cities main goes on with are the other active cities.
C20_UnregisteredExcluded ==
  [][\A c \in UnregisteredActive :
       /\ disc'.n # disc.n => disc'.city # c
       /\ fetch'.n # fetch.n => proc.city # c
       /\ lastGameId'[c] = lastGameId[c]
       /\ GamesOf(gamesFile', c) = GamesOf(gamesFile, c)
       /\ ResultsOf(resultsFile', gamesFile', c) = ResultsOf(resultsFile, gamesFile, c)
       /\ (proc.pc = "start" /\ proc'.pc = "newGames")
            => proc'.cities \in {<<>>, getCitiesByIds((proc.cityIds \cup proc.excluded)
                                                        \ UnregisteredActive)}]_vars

\* the steps of syncChanges at which it throws
SyncThrown == {"status", "commit", "push"}

\* C21: when the syncChanges at the end of a run has thrown, main has
\* returned true, and the process has not exited with a non-zero code.
C21_SyncFailureNotFatal ==
  proc.sync \in SyncThrown
    => /\ proc.pc = "return" => proc.ok
       /\ proc.exited => proc.code = 0

\* the commit of the sync at the end of the run failed, and runMain has
\* exited with code 0
C21_Witness ==
  /\ proc.sync = "commit"
  /\ proc.exited
  /\ proc.by = "runMain"
  /\ proc.code = 0

\* C22: a syncChanges at the end of a run that throws, at whichever step,
\* leaves the local store as it was: the games, series, teams, results and
\* watermarks written before it are still there.
C22_FailedSyncKeepsStore ==
  [][(proc.pc = "sync" /\ proc'.pc = "return" /\ proc'.sync \in SyncThrown)
       => /\ gamesFile' = gamesFile
          /\ seriesFile' = seriesFile
          /\ teamsFile' = teamsFile
          /\ resultsFile' = resultsFile
          /\ lastGameId' = lastGameId]_vars

\* C23: when the sync of an earlier run has thrown and a later run has
\* completed without a failure of its sync, whether or not that run found
\* anything new, origin holds every change of the local store.
C23_NextRunRetriesSync ==
  (/\ proc.pc = "return"
   /\ proc.ok
   /\ proc.failedRun > 0
   /\ proc.failedRun < proc.runs
   /\ proc.sync \notin SyncThrown)
    => git.origin = Snapshot

\* C24: every game persisted with saveGames and not marked processed is
\* returned by getGamesWithoutResults with the same id, city id and date.
C24_SavedGameReadBack ==
  \A k \in 1..Len(gamesCsv.saved) :
    LET read == getGamesWithoutResultsCsv(gamesCsv)
    IN /\ ~read.threw
       /\ \E i \in 1..Len(read.records) :
            /\ read.records[i]._id = gamesCsv.saved[k]._id
            /\ read.records[i].city_id = gamesCsv.saved[k].city_id
            /\ read.records[i].date = gamesCsv.saved[k].date

\* C19: createScraper returns the v1 strategy for a city without a tag, the
\* registered strategy for the tags "v1" and "v2", and the v1 strategy for
\* every other tag.
C19_FactoryByTag ==
  \A c \in Cities :
    scrapers.made[c] # ""
      => scrapers.made[c] = IF scrapers.tag[c] \in {"v1", "v2"} THEN scrapers.tag[c] ELSE "v1"

(***************************************************************************)
(* Claims about a row.                                                     *)
(***************************************************************************)
TenFifteenTwenty == << <<"1", "0">>, <<"1", "5">>, <<"2", "0">> >>

C14_FlaggedWhenUnresolved ==
  extraction.done =>
    (extraction.team.inconsistent_rank <=> extraction.result.rank_id = None)

(***************************************************************************)
(* Claims about one call of scrapeGames.                                   *)
(***************************************************************************)

\* the page whose request the call retried, 0 when it retried none
RetriedPage ==
  IF \E p \in 1..Len(scrape.out.requests) : scrape.out.requests[p] = 2
    THEN CHOOSE p \in 1..Len(scrape.out.requests) : scrape.out.requests[p] = 2
    ELSE 0

\* what the call returns from the pages before page p of the same listing
GamesBefore(p) ==
  scrapeGamesNet(SubSeq(scrape.src, 1, Min((p - 1) * PageSize, Len(scrape.src))),
                 1, scrape.wm, <<>>, FailAt(0)).games

\* C25: a listing page is requested at most twice: once more, exactly, when
\* its first response is not JSON; when the second response is unusable too
\* the pagination ends there as failed, and the call returns the games of
\* the pages before.
C25_OneRetryPerPage ==
  scrape.done =>
    \A p \in 1..Len(scrape.out.requests) :
      /\ scrape.out.requests[p] <= 2
      /\ ResponseAt(scrape.net.first, p) = "nonjson" <=> scrape.out.requests[p] = 2
      /\ (/\ ResponseAt(scrape.net.first, p) = "nonjson"
          /\ ResponseAt(scrape.net.second, p) # "json")
           => /\ scrape.out.failed
              /\ Len(scrape.out.requests) = p
              /\ scrape.out.games = GamesBefore(p)

\* page 2 was answered twice with something else than JSON, and the call
\* returned the games of page 1
C25_Witness ==
  /\ scrape.done
  /\ RetriedPage = 2
  /\ ResponseAt(scrape.net.second, 2) = "nonjson"
  /\ scrape.out.failed
  /\ Len(scrape.out.games) = PageSize

\* C26: a page request that throws (a network error, a timeout) is made a
\* second time before the pagination of the city is abandoned.
C26_ThrownRequestRetried ==
  scrape.done =>
    \A p \in 1..Len(scrape.out.requests) :
      ResponseAt(scrape.net.first, p) = "error" => scrape.out.requests[p] = 2

\* every request of the call was answered with JSON, the count of a response
\* being the number of its rows
PlainEndpoint == scrape.net.first = <<>> /\ scrape.net.counts = "page"

\* a stop condition is met at or before row j of the listing: the watermark,
\* or an id that an earlier row had
StopBy(j) ==
  \E k \in 1..j :
    \/ scrape.src[k].id = scrape.wm
    \/ \E e \in 1..(k - 1) : scrape.src[e].id = scrape.src[k].id

\* C27: a row that fails validation (a field missing or malformed, an
\* invalid timestamp) is dropped and does not stop the pagination: every
\* valid row after it, up to the stop condition, is discovered.
C27_FailingRowDropped ==
  (scrape.done /\ PlainEndpoint) =>
    \A i \in 1..Len(scrape.src) :
      ~scrape.src[i].valid =>
        \A j \in (i + 1)..Len(scrape.src) :
          (scrape.src[j].valid /\ ~StopBy(j)) =>
            \E g \in 1..Len(scrape.out.games) : scrape.out.games[g].id = scrape.src[j].id

\* the count of the response to the request of page p
CountAt(p) == PageCount(scrape.src, Page(scrape.src, p), scrape.net)

\* C29 as stated: a page that returns zero rows stops the discovery of the
\* city: no page after it is requested.
C29_EmptyPageStops ==
  scrape.done =>
    \A p \in 1..Len(scrape.out.requests) :
      (RequestPage(scrape.net, p).usable /\ Page(scrape.src, p) = <<>>)
        => Len(scrape.out.requests) = p

\* C29, amended: a page whose response has the count 0 stops the discovery
\* of the city, so the discovery ends for every source that answers some
\* page with the count 0, also without a watermark and without a repeated
\* id; the rows of a response do not matter.
C29_ZeroCountStops ==
  scrape.done =>
    /\ \A p \in 1..Len(scrape.out.requests) :
         (RequestPage(scrape.net, p).usable /\ CountAt(p) = 0)
           => Len(scrape.out.requests) = p
    /\ (\E p \in 1..MaxPages : CountAt(p) = 0) => ~scrape.out.capped

\* a listing of a full page of valid rows with ids of their own, no
\* watermark: the call went on to page 2, whose count was 0, accepted every
\* row and ended there without an error
C29_Witness ==
  /\ scrape.done
  /\ scrape.wm = None
  /\ Len(scrape.src) = PageSize
  /\ \A i, j \in 1..Len(scrape.src) : scrape.src[i].id = scrape.src[j].id => i = j
  /\ scrape.net.first = <<>>
  /\ CountAt(2) = 0
  /\ Len(scrape.out.requests) = 2
  /\ Len(scrape.out.games) = PageSize
  /\ ~scrape.out.failed
  /\ ~scrape.out.capped

\* the rows of the listing whose id an earlier row of the listing had
Repeats == { k \in 1..Len(scrape.src) : \E e \in 1..(k - 1) : scrape.src[e].id = scrape.src[k].id }

\* the ids of the rows before row k that pass the validation, last row first
RECURSIVE ValidIdsBefore(_)
ValidIdsBefore(k) ==
  IF k <= 1 THEN <<>>
  ELSE IF scrape.src[k - 1].valid
    THEN <<scrape.src[k - 1].id>> \o ValidIdsBefore(k - 1)
    ELSE ValidIdsBefore(k - 1)

\* C30: the discovery of a city stops, without an error, at the first row
\* whose id an earlier row of the same call had, whether that row was
\* accepted or dropped by the validation, and the call returns the games
\* collected before that row.
C30_StopsAtRepeatedId ==
  (/\ scrape.done
   /\ PlainEndpoint
   /\ scrape.wm = None
   /\ \A i \in 1..Len(scrape.src) : ~scrape.src[i].throws
   /\ Repeats # {})
    => LET k == CHOOSE r \in Repeats : \A q \in Repeats : r <= q
       IN /\ ~scrape.out.failed
          /\ Len(scrape.out.requests) = (k - 1) \div PageSize + 1
          /\ [g \in 1..Len(scrape.out.games) |-> scrape.out.games[g].id] = ValidIdsBefore(k)

(***************************************************************************)
(* Claims about the team index.                                            *)
(***************************************************************************)

\* the index a new process would load from teams.csv
FreshIndex == loadTeamCache(teamsFile, NoCache)

\* what a lookup answers: the team and the external id its object carries
Answer(cache, team) ==
  IF team = None THEN <<None, None>> ELSE <<team, cache.obj[team].qp>>

\* C32: the in-memory team index answers findTeamByNameAndCity and
\* findTeamByQpId as an index freshly loaded from teams.csv would: the same
\* team with the same external id, also for the first team ever saved and
\* for a team whose external id was back-filled.
C32_IndexMatchesStore ==
  teamCache.loaded =>
    /\ \A name \in TeamNames, c \in Cities :
         Answer(teamCache, findTeamByNameAndCity(teamCache, name, c))
           = Answer(FreshIndex, findTeamByNameAndCity(FreshIndex, name, c))
    /\ \A qp \in QpIds :
         Answer(teamCache, findTeamByQpId(teamCache, qp))
           = Answer(FreshIndex, findTeamByQpId(FreshIndex, qp))

\* the n-th candidate slug for a name: the base slug, then base-1, base-2, ...
Candidate(name, n) ==
  IF n = 0 THEN generateSlug(name) ELSE generateSlug(name) \o <<"-">> \o DecString(n)

\* teams.csv held a team of the city with the n-th candidate when the team
\* of row record r was created (team ids are given out in order)
CandidateUsed(r, n) ==
  \E i \in 1..Len(teamsFile) :
    /\ teamsFile[i].id < r.team
    /\ teamsFile[i].city = r.city
    /\ teamsFile[i].slug = Candidate(r.name, n)

\* C33: generateUniqueTeamSlug returns the first of base, base-1, base-2, ...
\* that no team of the city uses, every candidate being the base with the
\* next suffix.
C33_FirstFreeCandidate ==
  \A k \in 1..Len(fetch.rows) :
    fetch.rows[k].created =>
      \E n \in 0..Len(teamsFile) :
        /\ fetch.rows[k].slug = Candidate(fetch.rows[k].name, n)
        /\ ~CandidateUsed(fetch.rows[k], n)
        /\ \A m \in 0..(n - 1) : CandidateUsed(fetch.rows[k], m)

\* a team named like two stored teams of its city was given the base slug
\* with the suffix 2, the base and the base with the suffix 1 being used
C33_Witness ==
  \E k \in 1..Len(fetch.rows) :
    /\ fetch.rows[k].created
    /\ fetch.rows[k].slug = Candidate(fetch.rows[k].name, 2)
    /\ CandidateUsed(fetch.rows[k], 0)
    /\ CandidateUsed(fetch.rows[k], 1)
    /\ ~CandidateUsed(fetch.rows[k], 2)

(***************************************************************************)
(* Claims about the rows of a results table.                               *)
(***************************************************************************)

\* the teams of teams.csv, and of the loaded index, that carry an external id
\* after this step carry the one they carried before it
QpIdsStay ==
  /\ \A i \in 1..Len(teamsFile) :
       (teamsFile[i].qp # None /\ i <= Len(teamsFile')) => teamsFile'[i].qp = teamsFile[i].qp
  /\ (teamCache.loaded /\ teamCache'.loaded) =>
       \A t \in DOMAIN teamCache.obj :
         teamCache.obj[t].qp # None =>
           /\ teamCache'.obj[t].qp = teamCache.obj[t].qp
           /\ findTeamByQpId(teamCache', teamCache.obj[t].qp) = t

\* C39: back-filling never replaces an external id: a team that carries an
\* external id keeps it through every fetch, in teams.csv and in the index,
\* and stays the team the lookup by that id returns.
C39_BackfillKeepsQpId == [][fetch'.n # fetch.n => QpIdsStay]_vars

\* C38: when a fetch ends in an error and yields no result, the team store
\* is as before it: no team was created and no external id was set on a
\* team, neither in teams.csv nor in the in-memory index (which the call may
\* have loaded from the file).
C38_FailedFetchKeepsTeams ==
  [][(fetch'.n # fetch.n /\ fetch'.threw /\ fetch'.results = <<>>)
       => /\ teamsFile' = teamsFile
          /\ teamCache' \in {teamCache, loadTeamCache(teamsFile, teamCache)}]_vars

\* C28: a results row that fails the schema validation is dropped and the
\* rest of the table is kept: the call returns a result for every other row.
\* (The rows after the failing one are not in the model's tables, so the
\* other rows are the ones before it.)
C28_FailingResultRowDropped ==
  fetch.rejected > 0 => Len(fetch.results) = fetch.rejected - 1

=============================================================================
